---- MODULE Spec2Model ----
(***************************************************************************)
(* A model of the temporal-memory extensions of LLaVA-NeXT:                *)
(*   - temporal segmentation (llava/model/memory_module/segment.py),       *)
(*   - the recurrent memory transformer                                    *)
(*     (llava/model/memory_module/recurrent_memory.py),                    *)
(*   - the feature-extraction command line                                 *)
(*     (llava/model/memory_module/feature_extract.py),                     *)
(*   - prepare_inputs_labels_for_multimodal, its embedding fusion, its     *)
(*     query extraction, and initialize_vision_tokenizer                   *)
(*     (llava/model/llava_arch.py).                                        *)
(*                                                                         *)
(* The parts share no state.  Each has its own specification (SpecSeg,     *)
(* SpecMem, SpecFuse, SpecCli, SpecPrep, SpecQry, SpecTok); the variables  *)
(* of the other parts stay at their initial values.                        *)
(*                                                                         *)
(* Indices are the code's 0-based indices; TLA+ sequences are 1-based, so  *)
(* the element of index i of a tensor t is t[i+1].                         *)
(***************************************************************************)
EXTENDS Integers, Sequences, FiniteSets, TLC

VARIABLES
    \* ---- segment.py ----
    sim_scores,      \* cosine similarity of adjacent frames, length T-1
    seg_args,        \* arguments of the call: alpha, k, min_distance, max_distance
    seg_pc,          \* "ready", or the function that has returned
    seg_ret,         \* the returned boundary list
    seg_err,         \* "none" or the exception the call ended with
    depth_scores,    \* the depth scores the call computed, NotComputed if none
    \* ---- recurrent_memory.py ----
    params,          \* the module's parameters and mode
    memory_cache,    \* TransformerProjector.memory_cache
    cache_src,       \* history: the video whose chunk produced each cache entry
    fwd,             \* the locals and outcome of the last forward call
    calls,           \* history: the forward calls made in eval mode
    since_reset,     \* history: successful forward calls since the cache was empty
    ncalls,          \* history: forward calls so far, successful or not
    video,           \* the caller's position: the video whose chunks are being fed
    \* ---- llava_arch.py, embedding fusion ----
    batch,           \* the inputs of the fusion
    fuse_pc,         \* "ready" or "done"
    fused,           \* what the fusion produced
    \* ---- feature_extract.py ----
    cli,             \* the command line and the files the run finds
    cli_pc,          \* "ready" or "done"
    cli_out,         \* how the run ended and what it left behind
    \* ---- llava_arch.py, prepare_inputs_labels_for_multimodal ----
    prep,            \* the arguments and the configuration of the call
    prep_pc,         \* "ready" or "done"
    prep_out,        \* how the call ended and what it computed on the way
    \* ---- llava_arch.py, extract_user_query_tokens ----
    tokens,          \* the token ids of one sample
    qry_pc,          \* "ready" or "done"
    query_tensor,    \* what the extraction returned
    \* ---- llava_arch.py, initialize_vision_tokenizer ----
    tok,             \* model_args, the tokenizer and the embeddings before the call
    tok_pc,          \* "ready" or "done"
    tok_out          \* the tokenizer and the embeddings after the call

segVars == <<sim_scores, seg_args, seg_pc, seg_ret, seg_err, depth_scores>>
memVars == <<params, memory_cache, cache_src, fwd, calls, since_reset, ncalls, video>>
fuseVars == <<batch, fuse_pc, fused>>
cliVars == <<cli, cli_pc, cli_out>>
prepVars == <<prep, prep_pc, prep_out>>
qryVars == <<tokens, qry_pc, query_tensor>>
tokVars == <<tok, tok_pc, tok_out>>
vars == <<segVars, memVars, fuseVars, cliVars, prepVars, qryVars, tokVars>>

(***************************************************************************)
(* Generic helpers.                                                        *)
(***************************************************************************)
Min2(a, b) == IF a <= b THEN a ELSE b

Max2(a, b) == IF a >= b THEN a ELSE b

Last(s) == s[Len(s)]

IsPrefix(s, t) == Len(s) <= Len(t) /\ SubSeq(t, 1, Len(s)) = s

\* s[lo] + ... + s[hi], by halves.
RECURSIVE SumRange(_, _, _)
SumRange(s, lo, hi) ==
    IF lo > hi THEN 0
    ELSE IF lo = hi THEN s[lo]
    ELSE SumRange(s, lo, (lo + hi) \div 2) + SumRange(s, (lo + hi) \div 2 + 1, hi)

SumSeq(s) == SumRange(s, 1, Len(s))

SetMin(S) == CHOOSE x \in S : \A y \in S : x <= y

\* sorted(set(...)): the elements of a finite set of integers, ascending.
RECURSIVE sorted(_)
sorted(S) == IF S = {} THEN <<>> ELSE <<SetMin(S)>> \o sorted(S \ {SetMin(S)})

SeqToSet(s) == {s[i] : i \in 1..Len(s)}

StrictlyIncreasing(s) == \A i \in 1..(Len(s) - 1) : s[i] < s[i + 1]

\* The subsets of S with exactly k elements.
RECURSIVE KSubsets(_, _)
KSubsets(S, k) ==
    IF k = 0 THEN {{}}
    ELSE IF Cardinality(S) < k THEN {}
    ELSE LET x == CHOOSE x \in S : TRUE
         IN  {A \cup {x} : A \in KSubsets(S \ {x}, k - 1)} \cup KSubsets(S \ {x}, k)

(***************************************************************************)
(* segment.py                                                              *)
(*                                                                         *)
(* A feature sequence of T frames enters the functions only through the    *)
(* T-1 cosine similarities of adjacent frames (torch.cosine_similarity),   *)
(* so the input is the similarity sequence itself, quantised to the        *)
(* levels 0..MaxSim.  T is Len(sim_scores) + 1.  Arithmetic is exact: the  *)
(* rounding of float32 is not modelled.                                    *)
(***************************************************************************)
MaxFrames == 6

MaxSim == 2

SimLevels == 0..MaxSim

\* k=None, the default of segment and adjusted_segment.
None == -1

DefaultAlpha == <<1, 2>>

DefaultMinDistance == 32

DefaultMaxDistance == 50

\* The cap on the boundaries selected in threshold mode.
MaxBoundaries == 15

\* A variant of LeftPeak that stops at a tie: it goes on only while the
\* similarity strictly increases.
RECURSIVE LeftPeak_Strict(_, _, _)
LeftPeak_Strict(sim, li, lpeak) ==
    IF li < 1 THEN lpeak
    ELSE IF sim[li] > lpeak THEN LeftPeak_Strict(sim, li - 1, sim[li])
    ELSE lpeak

\* The left scan of cal_depth_score: from li down to the first decrease.
RECURSIVE LeftPeak(_, _, _)
LeftPeak(sim, li, lpeak) ==
    IF li < 1 THEN lpeak
    ELSE IF sim[li] >= lpeak THEN LeftPeak(sim, li - 1, sim[li])
    ELSE lpeak

\* The right scan of cal_depth_score: from ri up to the first decrease.
RECURSIVE RightPeak(_, _, _)
RightPeak(sim, ri, rpeak) ==
    IF ri > Len(sim) THEN rpeak
    ELSE IF sim[ri] >= rpeak THEN RightPeak(sim, ri + 1, sim[ri])
    ELSE rpeak

cal_depth_score(sim) ==
    [i \in 1..Len(sim) |->
        LeftPeak(sim, i - 1, sim[i]) + RightPeak(sim, i + 1, sim[i]) - 2 * sim[i]]

\* depth_scores[i] > mean + alpha * std, with torch.std_mean's unbiased std and
\* alpha the fraction alpha[1]/alpha[2] (alpha[2] > 0).  With one score the std
\* is NaN and the comparison is false.  With n scores of sum S and sum of
\* squares Q, std^2 = (n*Q - S^2) / (n*(n-1)), so the comparison is
\*     (n*d[i] - S) * alpha[2] * sqrt(n-1)  >  alpha[1] * sqrt(n * (n*Q - S^2)),
\* which is decided on the signs and the squares of the two sides.
ExceedsThresh(d, S, Q, i, alpha) ==
    LET n == Len(d)
        V == n * Q - S * S
        A == (n * d[i] - S) * alpha[2]
        B == alpha[1]
    IN  IF n < 2 THEN FALSE
        ELSE IF A > 0 /\ B <= 0 THEN TRUE
        ELSE IF A > 0 THEN A * A * (n - 1) > B * B * n * V
        ELSE IF B >= 0 THEN FALSE
        ELSE A * A * (n - 1) < B * B * n * V

\* condition.nonzero(): the indices whose depth score exceeds the threshold.
ThresholdSet(d, alpha) ==
    LET S == SumSeq(d)
        Q == SumSeq([j \in 1..Len(d) |-> d[j] * d[j]])
    IN  {i \in 0..(Len(d) - 1) : ExceedsThresh(d, S, Q, i + 1, alpha)}

\* torch.topk(depth_scores, k).indices as a set: every set of k indices none of
\* which has a smaller score than an index left out.  Which of several equal
\* scores is taken is not specified by torch, so all choices are possible.
\* Needs k <= Len(d).
topk(d, k) ==
    LET idx == 0..(Len(d) - 1)
        Above(v) == {i \in idx : d[i + 1] > v}
        Ties(v) == {i \in idx : d[i + 1] = v}
    IN  IF k = 0 THEN {{}}
        ELSE LET v == CHOOSE w \in {d[i + 1] : i \in idx} :
                        /\ Cardinality(Above(w)) < k
                        /\ k <= Cardinality(Above(w)) + Cardinality(Ties(w))
             IN  {Above(v) \cup X : X \in KSubsets(Ties(v), k - Cardinality(Above(v)))}

\* A variant of SelectBoundaries without the cap on the threshold selection.
SelectBoundaries_NoCap(d, alpha, k) ==
    IF k # None THEN topk(d, k) ELSE {ThresholdSet(d, alpha)}

\* The candidate boundaries, by top-k or by threshold: the possible index sets.
\* boundaries.tolist() lists the chosen set in ascending order.
SelectBoundaries(d, alpha, k) ==
    IF k # None THEN topk(d, k)
    ELSE LET c == ThresholdSet(d, alpha)
         IN  IF Cardinality(c) > MaxBoundaries THEN topk(d, MaxBoundaries) ELSE {c}

\* A variant of SegmentAppendsFinal that compares with the last index a
\* boundary can have, T - 2, instead of T - 1.
SegmentAppendsFinal_OffByOne(b, T) ==
    b = <<>> \/ Last(b) # T - 2

\* segment, lines 50-51: the final boundary T is appended unless the list
\* already ends with T-1.
SegmentAppendsFinal(b, T) == b = <<>> \/ Last(b) # T - 1

\* segment, lines 48-55, for the selected candidate set c.
SegmentFinish(c, T) ==
    LET b0 == sorted(c)
        b1 == IF SegmentAppendsFinal(b0, T) THEN Append(b0, T) ELSE b0
    IN  sorted(SeqToSet(b1))

\* Python's round() of the fraction num/den (den > 0, num >= 0): to the nearest
\* integer, a tie to the even one.
PyRound(num, den) ==
    LET q == num \div den
        r == num % den
    IN  IF 2 * r < den THEN q
        ELSE IF 2 * r > den THEN q + 1
        ELSE IF q % 2 = 0 THEN q ELSE q + 1

\* adjusted_segment, lines 112-116: the extra boundaries i..X between start and b.
RECURSIVE InsertExtra(_, _, _, _, _, _)
InsertExtra(adj, start, gap, X, i, b) ==
    IF i > X THEN adj
    ELSE LET new_boundary == start + PyRound(gap * i, X + 1)
         IN  IF new_boundary > Last(adj) /\ new_boundary < b
             THEN InsertExtra(Append(adj, new_boundary), start, gap, X, i + 1, b)
             ELSE InsertExtra(adj, start, gap, X, i + 1, b)

\* adjusted_segment, lines 103-118: one candidate b of boundaries[1:-1].
AdjustOne(adj, b, min_distance, max_distance) ==
    LET gap == b - Last(adj)
    IN  IF gap < min_distance THEN adj
        ELSE IF gap > max_distance
             THEN Append(InsertExtra(adj, Last(adj), gap, gap \div max_distance, 1, b), b)
             ELSE Append(adj, b)

\* adjusted_segment, lines 101-118: the loop over boundaries[1:-1], from index idx.
RECURSIVE AdjustLoop(_, _, _, _, _)
AdjustLoop(bs, idx, adj, min_distance, max_distance) ==
    IF idx >= Len(bs) THEN adj
    ELSE AdjustLoop(bs, idx + 1, AdjustOne(adj, bs[idx], min_distance, max_distance),
                    min_distance, max_distance)

\* adjusted_segment, lines 119-132: the final boundary is appended, or merged
\* into the last accepted one.
AdjustFinal(adj, last_boundary, min_distance) ==
    IF last_boundary - Last(adj) >= min_distance THEN Append(adj, last_boundary)
    ELSE IF Len(adj) >= 2 THEN [adj EXCEPT ![Len(adj)] = last_boundary]
    ELSE adj

\* adjusted_segment, lines 88-132, for the selected candidate set c.
AdjustedFinish(c, T, min_distance, max_distance) ==
    LET b0 == sorted(c)
        b1 == IF b0 = <<>> \/ Last(b0) # T THEN Append(b0, T) ELSE b0
        b2 == IF b1[1] # 0 THEN <<0>> \o b1 ELSE b1
        boundaries == sorted(SeqToSet(b2))
        adj == AdjustLoop(boundaries, 2, <<boundaries[1]>>, min_distance, max_distance)
    IN  AdjustFinal(adj, Last(boundaries), min_distance)

\* ---- the inputs of the segmentation functions ----

\* Every similarity sequence of a video of 1..MaxFrames frames.
ShortSims == UNION {[1..n -> SimLevels] : n \in 0..(MaxFrames - 1)}

\* Long videos: T frames whose adjacent-frame similarity is MaxSim except for a
\* dip to 0 at the indices D.
DipSim(T, D) == [i \in 1..(T - 1) |-> IF (i - 1) \in D THEN 0 ELSE MaxSim]

LongVideos ==
    { <<60, {}>>, <<60, {40}>>, <<90, {51}>>, <<90, {20, 70}>> }

LongSims == {DipSim(v[1], v[2]) : v \in LongVideos}

\* A video of 36 frames with a scene change at every other frame: ten deep
\* dips of the similarity and then seven shallow ones, more than the cap on
\* the boundaries.
DenseSim ==
    [i \in 1..35 |-> IF i % 2 = 1 THEN MaxSim ELSE IF i <= 20 THEN 0 ELSE 1]

Alphas == {<<0 - 1, 1>>, <<1, 2>>, <<2, 1>>}

DistancePairs ==
    { <<DefaultMinDistance, DefaultMaxDistance>>, <<2, 3>>, <<3, 5>>, <<1, 1>>, <<0, 2>> }

Frames == Len(sim_scores) + 1

\* The values of k tried: None, and 0..T (k = T is more than the T-1 depth
\* scores, which torch.topk rejects).  Long videos are segmented with the
\* defaults only.
KChoices == IF Frames <= MaxFrames + 1 /\ sim_scores \notin LongSims
            THEN {None} \cup 0..Frames ELSE {None}

AlphaChoices(k) == IF k = None /\ sim_scores \notin LongSims THEN Alphas ELSE {DefaultAlpha}

\* The depth scores of a call that returned before computing them.
NotComputed == <<"not computed">>

\* A variant of SingleFrame without the early return.
SingleFrame_Never(T) ==
    FALSE

\* segment.py lines 30 and 70: features.shape[0] == 1.
SingleFrame(T) == T = 1

\* The depth scores a call on T frames computes (lines 33-34, 74-75).
ComputedDepth(T) == IF SingleFrame(T) THEN NotComputed ELSE cal_depth_score(sim_scores)

InitSeg ==
    /\ sim_scores \in ShortSims \cup LongSims \cup {DenseSim}
    /\ seg_args = [fn |-> "none", alpha |-> DefaultAlpha, k |-> None,
                   min_distance |-> None, max_distance |-> None]
    /\ seg_pc = "ready"
    /\ seg_ret = <<>>
    /\ seg_err = "none"
    /\ depth_scores = NotComputed

\* segment(features, alpha, k), segment.py lines 27-55.
segment(alpha, k) ==
    /\ seg_pc = "ready"
    /\ seg_pc' = "segment"
    /\ seg_args' = [fn |-> "segment", alpha |-> alpha, k |-> k,
                    min_distance |-> None, max_distance |-> None]
    /\ depth_scores' = ComputedDepth(Frames)
    /\ IF SingleFrame(Frames)
       THEN seg_ret' = <<0>> /\ seg_err' = "none"
       ELSE IF k # None /\ k > Len(sim_scores)
       THEN seg_ret' = <<>> /\ seg_err' = "RuntimeError"
       ELSE /\ \E c \in SelectBoundaries(cal_depth_score(sim_scores), alpha, k) :
                 seg_ret' = SegmentFinish(c, Frames)
            /\ seg_err' = "none"
    /\ UNCHANGED sim_scores

\* adjusted_segment(features, alpha, k, min_distance, max_distance),
\* segment.py lines 57-132.
adjusted_segment(alpha, k, min_distance, max_distance) ==
    /\ seg_pc = "ready"
    /\ seg_pc' = "adjusted_segment"
    /\ seg_args' = [fn |-> "adjusted_segment", alpha |-> alpha, k |-> k,
                    min_distance |-> min_distance, max_distance |-> max_distance]
    /\ depth_scores' = ComputedDepth(Frames)
    /\ IF SingleFrame(Frames)
       THEN seg_ret' = <<0>> /\ seg_err' = "none"
       ELSE IF k # None /\ k > Len(sim_scores)
       THEN seg_ret' = <<>> /\ seg_err' = "RuntimeError"
       ELSE /\ \E c \in SelectBoundaries(cal_depth_score(sim_scores), alpha, k) :
                 seg_ret' = AdjustedFinish(c, Frames, min_distance, max_distance)
            /\ seg_err' = "none"
    /\ UNCHANGED sim_scores

NextSeg ==
    \/ \E k \in KChoices : \E alpha \in AlphaChoices(k) :
         segment(alpha, k) /\ UNCHANGED <<memVars, fuseVars, cliVars, prepVars, qryVars, tokVars>>
    \/ \E k \in KChoices : \E alpha \in AlphaChoices(k) : \E d \in DistancePairs :
         adjusted_segment(alpha, k, d[1], d[2]) /\ UNCHANGED <<memVars, fuseVars, cliVars, prepVars, qryVars, tokVars>>

(***************************************************************************)
(* recurrent_memory.py                                                     *)
(*                                                                         *)
(* A tensor is abstracted to one value: a number of 0..MaxVal standing for *)
(* its finite content, or NaN when any of its elements is NaN.  The        *)
(* weights do not change between calls, so with dropout off a layer is a   *)
(* fixed function of its inputs; AttnFn and FfnFn stand for those          *)
(* functions.  With dropout on (training mode) the result also depends on  *)
(* the random mask: either nothing is dropped, or the result is another    *)
(* value.  A NaN in the query, in the keys/values or in the weights makes  *)
(* the whole output NaN: the softmax runs over every key, and the residual *)
(* adds the layer's input to its output.  head_mask is left at None.       *)
(***************************************************************************)
MaxVal == 2

MaxCalls == 3

NumVideos == 2

Vals == 0..MaxVal

NaN == -1

\* A local of forward that the call did not get to assign.
Unset == -2

\* Config.depth: the number of TransformerLayers.
depth == 1

IsNaN(x) == x = NaN

\* torch.isnan(t).any() for a tensor given as the sequence of its parts.
AnyNaN(t) == \E i \in 1..Len(t) : IsNaN(t[i])

\* A variant of DropoutActive where dropout stays on in eval mode.
DropoutActive_Always(p) ==
    TRUE

\* nn.Dropout is active in training mode only.
DropoutActive(p) == p.training

\* What dropout can make of the value x.
Dropout(x, p) == IF DropoutActive(p) THEN {x, (x + 1) % (MaxVal + 1)} ELSE {x}

\* Attention.forward followed by its Residual, for the query q and the
\* keys/values kv (a sequence of parts): the possible outputs.
AttnFn(q, kv) == (q + SumSeq(kv) + 1) % (MaxVal + 1)

Attention(q, kv, finite, p) ==
    IF IsNaN(q) \/ AnyNaN(kv) \/ ~finite THEN {NaN}
    ELSE Dropout(AttnFn(q, kv), p)

\* TransformerLayer.ffn: the mlp and its Residual.
FfnFn(x) == (x + 1) % (MaxVal + 1)

Ffn(x, finite, p) == IF IsNaN(x) \/ ~finite THEN {NaN} ELSE Dropout(FfnFn(x), p)

\* TransformerLayer.forward on hidden_states h = <<memory part, image part>>:
\* self-attention over the whole sequence, then the feed-forward; no
\* cross-attention, as forward passes kv_hidden_states=None.
TransformerLayer(h, p) ==
    UNION { UNION { { <<m2, i2>> : m2 \in Ffn(m1, p.layers_finite, p),
                                   i2 \in Ffn(i1, p.layers_finite, p) }
                    : i1 \in Attention(h[2], h, p.layers_finite, p) }
            : m1 \in Attention(h[1], h, p.layers_finite, p) }

\* forward, lines 309-320: hidden_states after the layers d..depth.
RECURSIVE Layers(_, _, _)
Layers(h, d, p) ==
    IF d > depth THEN {h}
    ELSE UNION {Layers(h2, d + 1, p) : h2 \in TransformerLayer(h, p)}

\* A variant of StartMemory that starts every call from initial_memory.
StartMemory_AlwaysInitial(cache, p) ==
    p.initial_memory

\* forward, lines 287-294: the current memory the call starts from.
StartMemory(cache, p) == IF Len(cache) = 0 THEN p.initial_memory ELSE Last(cache)

\* forward, lines 287-291: the NaN check of the initial memory.
InitialMemoryCheckFails(cache, p) == Len(cache) = 0 /\ IsNaN(p.initial_memory)

\* A variant of NeedsRefresh that refreshes as soon as the cache holds an entry.
NeedsRefresh_Nonempty(cache) ==
    Len(cache) > 0

\* forward, line 295: whether the current memory is refreshed from the cache.
NeedsRefresh(cache) == Len(cache) > 1

\* _update_memory_tokens_with_cache: cross-attention of the current memory
\* over the concatenation of all cache entries.
update_memory_tokens_with_cache(cache, current_memory, p) ==
    IF Len(cache) = 0 THEN {current_memory}
    ELSE Attention(current_memory, cache, p.retrieval_finite, p)

\* A variant of HiddenCheckFails where the check of hidden_states is skipped.
HiddenCheckFails_Skipped(hidden_states) ==
    FALSE

\* forward, line 322: the NaN check of hidden_states.
HiddenCheckFails(hidden_states) == AnyNaN(hidden_states)

\* A variant of AppendMemory that keeps only the newest memory in the cache.
AppendMemory_KeepLast(cache, new_memory_tokens) ==
    <<new_memory_tokens>>

\* forward, line 331: the new memory tokens are appended to the cache.
AppendMemory(cache, new_memory_tokens) == Append(cache, new_memory_tokens)

\* A variant of CacheAfterFailure where the new memory tokens are appended
\* before hidden_states is checked.
CacheAfterFailure_Appended(cache, hidden_states) ==
    Append(cache, hidden_states[1])

\* forward, lines 322-331: the check of hidden_states raises before the
\* append of line 331, so a failed call leaves the cache as it found it.
CacheAfterFailure(cache, hidden_states) == cache

NoCall ==
    [called |-> FALSE, video |-> 0, image_features |-> Unset, cache_before |-> <<>>,
     start_memory |-> Unset, refreshed |-> FALSE, current_memory |-> Unset,
     hidden_states |-> <<>>, outcome |-> "none", ret |-> Unset]

\* TransformerProjector.forward(image_features), lines 267-334: the possible
\* results, each the record of the call and the cache it leaves.
ForwardResults(cache, p, vid, image_features) ==
    LET start == StartMemory(cache, p)
        base == [NoCall EXCEPT !.called = TRUE, !.video = vid,
                               !.image_features = image_features,
                               !.cache_before = cache, !.start_memory = start]
    IN  IF InitialMemoryCheckFails(cache, p)
        THEN { [call |-> [base EXCEPT !.current_memory = start,
                                      !.outcome = "ValueError: current_memory"],
                cache |-> cache] }
        ELSE UNION {
               { IF HiddenCheckFails(hs)
                 THEN [call |-> [base EXCEPT !.refreshed = NeedsRefresh(cache),
                                             !.current_memory = cur,
                                             !.hidden_states = hs,
                                             !.outcome = "ValueError: hidden_states"],
                       cache |-> CacheAfterFailure(cache, hs)]
                 ELSE [call |-> [base EXCEPT !.refreshed = NeedsRefresh(cache),
                                             !.current_memory = cur,
                                             !.hidden_states = hs,
                                             !.outcome = "ok",
                                             !.ret = hs[1]],
                       cache |-> AppendMemory(cache, hs[1])]
                 : hs \in Layers(<<cur, image_features>>, depth, p) }
               : cur \in (IF NeedsRefresh(cache)
                          THEN update_memory_tokens_with_cache(cache, start, p)
                          ELSE {start}) }

\* The module after construction: parameters as initialised or trained (a
\* parameter may have diverged to NaN or inf), the mode, an empty cache.
InitMem ==
    /\ params \in [initial_memory : Vals \cup {NaN}, retrieval_finite : BOOLEAN,
                   layers_finite : BOOLEAN, training : BOOLEAN]
    /\ memory_cache = <<>>
    /\ cache_src = <<>>
    /\ fwd = NoCall
    /\ calls = <<>>
    /\ since_reset = 0
    /\ ncalls = 0
    /\ video = 1

\* One call of forward on a chunk of the current video.
forward(image_features) ==
    /\ ncalls < MaxCalls
    /\ \E r \in ForwardResults(memory_cache, params, video, image_features) :
         /\ fwd' = r.call
         /\ memory_cache' = r.cache
         /\ cache_src' = IF r.call.outcome = "ok" THEN Append(cache_src, video)
                         ELSE cache_src
         /\ since_reset' = IF r.call.outcome = "ok" THEN since_reset + 1
                           ELSE since_reset
         /\ calls' = IF params.training THEN calls ELSE Append(calls, r.call)
    /\ ncalls' = ncalls + 1
    /\ UNCHANGED <<params, video>>

\* The caller empties the cache (memory_cache = []).
reset_memory_cache ==
    /\ memory_cache # <<>>
    /\ memory_cache' = <<>>
    /\ cache_src' = <<>>
    /\ since_reset' = 0
    /\ UNCHANGED <<params, fwd, calls, ncalls, video>>

\* The caller goes on to the next video without touching the module.
start_video ==
    /\ video < NumVideos
    /\ fwd.called /\ fwd.video = video
    /\ video' = video + 1
    /\ UNCHANGED <<params, memory_cache, cache_src, fwd, calls, since_reset, ncalls>>

NextMem ==
    \/ \E x \in Vals \cup {NaN} : forward(x) /\ UNCHANGED <<segVars, fuseVars, cliVars, prepVars, qryVars, tokVars>>
    \/ reset_memory_cache /\ UNCHANGED <<segVars, fuseVars, cliVars, prepVars, qryVars, tokVars>>
    \/ start_video /\ UNCHANGED <<segVars, fuseVars, cliVars, prepVars, qryVars, tokVars>>

(***************************************************************************)
(* llava_arch.py: the text/image embedding fusion of                       *)
(* prepare_inputs_labels_for_multimodal, lines 831-973.                    *)
(*                                                                         *)
(* image_features is the list the earlier stages leave: one block per      *)
(* image or video, given by its number of rows.  An embedding row is       *)
(* identified by where it comes from: the text token it embeds, or the row *)
(* of the image-feature block, or padding.                                 *)
(***************************************************************************)
MaxTokens == 3

MaxBlocks == 2

PosSkippingRange == 1

IMAGE_TOKEN_INDEX == -200

IGNORE_INDEX == -100

BatchSizes == {1, 2}

BlockLens == {1, 2}

\* The id of the text token, and the real label, at position p of sample b.
TextId(b, p) == 10 * b + p

LabelId(b, p) == 100 + 10 * b + p

\* self.get_model().embed_tokens on one token id.
embed_tokens(t) == [kind |-> "text", src |-> t, row |-> 0]

ImageRow(j, r) == [kind |-> "image", src |-> j, row |-> r]

PadRow == [kind |-> "pad", src |-> 0, row |-> 0]

\* image_features[j]: the rows of block j (0-based).
Block(image_features, j) == [r \in 1..image_features[j + 1] |-> ImageRow(j, r)]

\* Python's list[i] on a list of n elements: whether it raises IndexError, and
\* the 0-based element it reads (a negative i counts from the end).
PyIndexValid(n, i) == 0 - n <= i /\ i < n

PyIndex(n, i) == IF i < 0 THEN n + i ELSE i

\* t[mask]: the elements of t where mask is True.
RECURSIVE MaskedSelect(_, _)
MaskedSelect(t, mask) ==
    IF t = <<>> THEN <<>>
    ELSE (IF mask[1] THEN <<t[1]>> ELSE <<>>) \o MaskedSelect(Tail(t), Tail(mask))

Full(n, x) == [i \in 1..n |-> x]

\* Lines 843-850: the dummy mask and labels when none are given.
EffectiveMask(bt) ==
    IF bt.mask_given THEN bt.attention_mask
    ELSE [b \in 1..Len(bt.input_ids) |-> Full(Len(bt.input_ids[b]), TRUE)]

EffectiveLabels(bt) ==
    IF bt.labels_given THEN bt.labels
    ELSE [b \in 1..Len(bt.input_ids) |-> Full(Len(bt.input_ids[b]), IGNORE_INDEX)]

\* Lines 854-855: the padding removed with the attention mask.
UnpaddedIds(bt) ==
    [b \in 1..Len(bt.input_ids) |-> MaskedSelect(bt.input_ids[b], EffectiveMask(bt)[b])]

UnpaddedLabels(bt) ==
    [b \in 1..Len(bt.input_ids) |-> MaskedSelect(EffectiveLabels(bt)[b], EffectiveMask(bt)[b])]

\* Line 874: [-1] + the 0-based positions of the image tokens + [len].
RECURSIVE ImagePositions(_, _)
ImagePositions(ids, from) ==
    IF from > Len(ids) THEN <<>>
    ELSE (IF ids[from] = IMAGE_TOKEN_INDEX THEN <<from - 1>> ELSE <<>>)
         \o ImagePositions(ids, from + 1)

image_token_indices(ids) == <<0 - 1>> \o ImagePositions(ids, 1) \o <<Len(ids)>>

\* Lines 881-882: t[lo + 1 : hi] for 0-based lo, hi.
Between(t, lo, hi) == SubSeq(t, lo + 2, hi)

\* Lines 894-898: the block read at the cursor; one past the end of the list
\* falls back to the previous block.  -1 stands for an uncaught IndexError.
BlockAtCursor(n, cur_image_idx) ==
    IF PyIndexValid(n, cur_image_idx) THEN PyIndex(n, cur_image_idx)
    ELSE IF PyIndexValid(n, cur_image_idx - 1) THEN PyIndex(n, cur_image_idx - 1)
    ELSE 0 - 1

\* A variant of ImageLabels with one label for the whole block.
ImageLabels_OnePerBlock(n) ==
    <<IGNORE_INDEX>>

\* A variant of ImageLabels filled with zeros instead of IGNORE_INDEX.
ImageLabels_Zeros(n) ==
    Full(n, 0)

\* Line 900: the labels of an image-feature block of n rows.
ImageLabels(n) == Full(n, IGNORE_INDEX)

\* Lines 890-900: the interleaving of the text chunks i..num_images of one
\* sample with the image-feature blocks at the cursor.
RECURSIVE Interleave(_, _, _, _, _, _)
Interleave(ids, labs, idx, i, image_features, acc) ==
    LET num_images == Len(idx) - 2
        lo == idx[i + 1]
        hi == idx[i + 2]
        text == [q \in 1..(hi - lo - 1) |-> embed_tokens(Between(ids, lo, hi)[q])]
        acc1 == [acc EXCEPT !.embeds = @ \o text,
                            !.labels = @ \o Between(labs, lo, hi)]
    IN  IF i > num_images THEN acc
        ELSE IF i = num_images THEN acc1
        ELSE LET j == BlockAtCursor(Len(image_features), acc.cur_image_idx)
             IN  IF j < 0 THEN [acc1 EXCEPT !.err = "IndexError"]
                 ELSE Interleave(ids, labs, idx, i + 1, image_features,
                          [acc1 EXCEPT !.embeds = @ \o Block(image_features, j),
                                       !.labels = @ \o ImageLabels(image_features[j + 1]),
                                       !.blocks = Append(@, j),
                                       !.cur_image_idx = @ + 1])

\* Lines 861-910 for one sample: its fused embeddings and labels, the blocks
\* it consumed and the cursor after it.
FuseSample(ids, labs, image_features, cur_image_idx) ==
    LET num_images == Cardinality({q \in 1..Len(ids) : ids[q] = IMAGE_TOKEN_INDEX})
        start == [err |-> "none", embeds |-> <<>>, labels |-> <<>>, blocks |-> <<>>,
                  cur_image_idx |-> cur_image_idx]
    IN  IF num_images = 0
        THEN IF ~PyIndexValid(Len(image_features), cur_image_idx)
             THEN [start EXCEPT !.err = "IndexError"]
             ELSE [start EXCEPT !.embeds = [q \in 1..Len(ids) |-> embed_tokens(ids[q])],
                                !.labels = labs,
                                !.cur_image_idx = @ + 1]
        ELSE Interleave(ids, labs, image_token_indices(ids), 0, image_features, start)

\* Lines 857-910: the loop over the batch from sample b, with the batch-wide
\* cursor.  Stops at the first sample that raises.
RECURSIVE FuseBatch(_, _, _, _, _)
FuseBatch(ids, labs, image_features, b, acc) ==
    IF b > Len(ids) THEN acc
    ELSE LET r == FuseSample(ids[b], labs[b], image_features, acc.cur_image_idx)
         IN  IF r.err # "none" THEN [acc EXCEPT !.err = r.err]
             ELSE FuseBatch(ids, labs, image_features, b + 1,
                      [acc EXCEPT !.new_input_embeds = Append(@, r.embeds),
                                  !.new_labels = Append(@, r.labels),
                                  !.blocks = Append(@, r.blocks),
                                  !.cur_image_idx = r.cur_image_idx])

\* x[:n], n None or a length >= 0.
Truncate(x, n) == IF n = None THEN x ELSE SubSeq(x, 1, Min2(n, Len(x)))

\* Lines 917-918: the rows kept by zip(new_input_embeds, modalities), truncated.
Truncated(rows, n_modalities, tokenizer_model_max_length) ==
    [i \in 1..Min2(Len(rows), n_modalities) |-> Truncate(rows[i], tokenizer_model_max_length)]

RECURSIVE MaxLen(_)
MaxLen(rows) == IF rows = <<>> THEN 0 ELSE Max2(Len(rows[1]), MaxLen(Tail(rows)))

\* A variant of PadTo that pads on the right whatever the padding side.
PadTo_AlwaysRight(row, max_len, fill, side) ==
    row \o Full(max_len - Len(row), fill)

\* Lines 934-947: one padded row: the content row placed at the padding side
\* of a row of max_len fill values.
PadTo(row, max_len, fill, side) ==
    IF Len(row) = 0 THEN Full(max_len, fill)
    ELSE IF side = "left" THEN Full(max_len - Len(row), fill) \o row
    ELSE row \o Full(max_len - Len(row), fill)

\* Line 941/947: torch.arange(0, cur_len).
Arange(n) == [i \in 1..n |-> i - 1]

NotFused ==
    [status |-> "none", new_input_embeds |-> <<>>, new_labels |-> <<>>, blocks |-> <<>>,
     cur_image_idx |-> 0, input_embeds |-> <<>>, labels |-> <<>>, labels_none |-> TRUE,
     attention_mask |-> <<>>, attention_mask_none |-> TRUE,
     position_ids |-> <<>>, position_ids_none |-> TRUE]

\* Lines 964-970: the position ids under position skipping: one row
\* arange(max_len), plus left_add before split_position and right_add from it.
PosSkipped(max_len) ==
    { << [i \in 1..max_len |-> (i - 1) + (IF i <= split THEN left_add ELSE right_add)] >> :
        <<split, left_add, right_add>> \in
            { t \in (0..max_len) \X (0..PosSkippingRange) \X (0..PosSkippingRange) :
                  t[2] <= t[3] } }

\* Lines 831-973: what the fusion returns, or the exception it ends with.
FusionResults(bt) ==
    LET cfg == bt.config
        f == FuseBatch(UnpaddedIds(bt), UnpaddedLabels(bt), bt.image_features, 1,
                       [err |-> "none", new_input_embeds |-> <<>>, new_labels |-> <<>>,
                        blocks |-> <<>>, cur_image_idx |-> 0])
        embeds == Truncated(f.new_input_embeds, bt.n_modalities, cfg.tokenizer_model_max_length)
        labs == Truncated(f.new_labels, bt.n_modalities, cfg.tokenizer_model_max_length)
        max_len == MaxLen(embeds)
        side == cfg.tokenizer_padding_side
        done == [NotFused EXCEPT
                   !.status = "ok",
                   !.new_input_embeds = f.new_input_embeds,
                   !.new_labels = f.new_labels,
                   !.blocks = f.blocks,
                   !.cur_image_idx = f.cur_image_idx,
                   !.input_embeds = [i \in 1..Len(embeds) |-> PadTo(embeds[i], max_len, PadRow, side)],
                   !.labels = [i \in 1..Len(embeds) |-> PadTo(labs[i], max_len, IGNORE_INDEX, side)],
                   !.labels_none = ~bt.labels_given,
                   !.attention_mask =
                       [i \in 1..Len(embeds) |->
                           PadTo(Full(Len(embeds[i]), TRUE), max_len, FALSE, side)],
                   !.attention_mask_none = ~bt.mask_given,
                   !.position_ids =
                       [i \in 1..Len(embeds) |-> PadTo(Arange(Len(embeds[i])), max_len, 0, side)],
                   !.position_ids_none = ~bt.position_ids_given]
    IN  IF cfg.tune_mm_mlp_adapter /\ cfg.mm_use_im_start_end
        THEN {[NotFused EXCEPT !.status = "NotImplementedError"]}
        ELSE IF f.err # "none"
        THEN {[NotFused EXCEPT !.status = f.err, !.new_input_embeds = f.new_input_embeds,
                               !.new_labels = f.new_labels, !.blocks = f.blocks,
                               !.cur_image_idx = f.cur_image_idx]}
        ELSE IF cfg.use_pos_skipping /\ cfg.training
        THEN {[done EXCEPT !.position_ids = ps, !.position_ids_none = FALSE] :
                  ps \in PosSkipped(max_len)}
        ELSE {done}

\* ---- the inputs of the fusion ----

DefaultConfig ==
    [tokenizer_model_max_length |-> None, tokenizer_padding_side |-> "right",
     use_pos_skipping |-> FALSE, training |-> FALSE,
     tune_mm_mlp_adapter |-> FALSE, mm_use_im_start_end |-> FALSE]

\* The configurations tried: every padding side with no maximum length or a
\* maximum of 2; and, for a single-sample batch, position skipping in training
\* and the unsupported adapter-tuning combination.
Configs(B) ==
    { [DefaultConfig EXCEPT !.tokenizer_model_max_length = n,
                            !.tokenizer_padding_side = sd] :
          n \in {None, 2}, sd \in {"right", "left"} }
    \cup (IF B = 1
          THEN { [DefaultConfig EXCEPT !.use_pos_skipping = TRUE, !.training = TRUE],
                 [DefaultConfig EXCEPT !.tune_mm_mlp_adapter = TRUE,
                                       !.mm_use_im_start_end = TRUE] }
          ELSE {})

\* The label rows given: every position a real label, or the first position
\* of each sample ignored.
LabelRows(B, L) ==
    { [b \in 1..B |-> [q \in 1..L |-> LabelId(b, q)]],
      [b \in 1..B |-> [q \in 1..L |-> IF q = 1 THEN IGNORE_INDEX ELSE LabelId(b, q)]] }

\* The attention masks given: no padding, or the last position of the first
\* sample padded.
MaskRows(B, L) ==
    { [b \in 1..B |-> Full(L, TRUE)],
      [b \in 1..B |-> [q \in 1..L |-> ~(b = 1 /\ q = L)]] }

\* The labels, attention mask and position ids of a batch: given together or
\* not at all.
Givens(B, L) ==
    {<<FALSE, <<>>, <<>>>>}
    \cup {<<TRUE, lr, mr>> : lr \in LabelRows(B, L), mr \in MaskRows(B, L)}

\* The lists of image-feature blocks, by the number of rows of each block.
FeatureLists == UNION {[1..n -> BlockLens] : n \in 0..MaxBlocks}

\* A batch of B samples of L tokens with image tokens where img says.
Batch(B, L, img, g, feats, nm, cfg) ==
    [input_ids |-> [b \in 1..B |-> [q \in 1..L |->
                        IF img[b][q] THEN IMAGE_TOKEN_INDEX ELSE TextId(b, q)]],
     labels_given |-> g[1], labels |-> g[2],
     mask_given |-> g[1], attention_mask |-> g[3],
     position_ids_given |-> g[1],
     image_features |-> feats, n_modalities |-> nm, config |-> cfg]

InitFuse ==
    /\ \E B \in BatchSizes, L \in 2..MaxTokens :
         \E img \in [1..B -> [1..L -> BOOLEAN]], g \in Givens(B, L),
            feats \in FeatureLists, nm \in {1, B}, cfg \in Configs(B) :
             batch = Batch(B, L, img, g, feats, nm, cfg)
    /\ fuse_pc = "ready"
    /\ fused = NotFused

\* The fusion stage of prepare_inputs_labels_for_multimodal.
fuse_embeddings ==
    /\ fuse_pc = "ready"
    /\ fuse_pc' = "done"
    /\ fused' \in FusionResults(batch)
    /\ UNCHANGED batch

NextFuse == fuse_embeddings /\ UNCHANGED <<segVars, memVars, cliVars, prepVars, qryVars, tokVars>>

(***************************************************************************)
(* feature_extract.py                                                      *)
(*                                                                         *)
(* A run of the command line: its arguments, the label file and the output *)
(* directories it finds, and the videos the label file lists, each by its  *)
(* number of frames and its average frame rate in hundredths of a frame    *)
(* per second.  The label entries are well formed and their videos exist.  *)
(***************************************************************************)
MaxVideos == 2

DatasetNames == {"longvideobench", "videomme", "other"}

FeatureModels == {"blip", "clip", "sevila"}

\* argparse's default of --extract_feature_model.
DefaultFeatureModel == "blip"

FrameCounts == {0, 7, 90}

FpsHundredths == {50, 100, 150, 2997}

\* int(fps): truncation.
IntFps(fps100) == fps100 \div 100

\* Lines 85, 94, 101: the distance in frames between two sampling points.
SamplingStep(fps100) == IntFps(fps100)

\* Line 85: frame_nums = int(len(vr) / int(fps)).
frame_nums(frames, fps100) == frames \div SamplingStep(fps100)

\* Lines 93-101: the source-frame indices recorded for one video.
frame_num(frames, fps100) ==
    [j \in 1..frame_nums(frames, fps100) |-> (j - 1) * SamplingStep(fps100)]

\* Lines 36-43: whether the dataset name is one of the two supported.
DatasetSupported(dataset_name) == dataset_name \in {"longvideobench", "videomme"}

\* A variant of ModelSupported that accepts every selector.
ModelSupported_Any(extract_feature_model) ==
    TRUE

\* Line 53: the only selector with a model behind it.
ModelSupported(extract_feature_model) == extract_feature_model = "clip"

NotRun ==
    [status |-> "none", dirs_created |-> {}, videos_opened |-> 0,
     fn |-> <<>>, scores |-> <<>>, files_written |-> {}, writes |-> <<>>]

\* Lines 74-104: the loop over the label entries from entry i, with the
\* frame lists and the numbers of scores collected so far.
RECURSIVE ScoreVideos(_, _, _)
ScoreVideos(videos, i, acc) ==
    IF i > Len(videos) THEN acc
    ELSE LET v == videos[i]
             opened == [acc EXCEPT !.videos_opened = @ + 1]
         IN  IF SamplingStep(v.fps100) = 0
             THEN [opened EXCEPT !.status = "ZeroDivisionError"]
             ELSE ScoreVideos(videos, i + 1,
                      [opened EXCEPT !.fn = Append(@, frame_num(v.frames, v.fps100)),
                                     !.scores = Append(@, frame_nums(v.frames, v.fps100))])

\* Lines 63-67: the output directories made, or the error of os.mkdir under a
\* directory that does not exist.
MakeDirs(c) ==
    IF ~c.dataset_dir_exists /\ ~c.output_file_exists
    THEN [NotRun EXCEPT !.status = "FileNotFoundError"]
    ELSE [NotRun EXCEPT !.dirs_created =
              (IF c.dataset_dir_exists THEN {} ELSE {"dataset"})
              \cup (IF c.model_dir_exists THEN {} ELSE {"model"})]

\* A variant of OutputWrites that leaves scores.json out.
OutputWrites_FramesOnly(scored) ==
    << <<"frames.json", scored.fn>> >>

\* Lines 106-109: the files written after the loop, in order, each with the
\* list dumped into it.
OutputWrites(scored) ==
    << <<"frames.json", scored.fn>>, <<"scores.json", scored.scores>> >>

\* main(args), lines 35-109.
MainResult(c) ==
    IF ~DatasetSupported(c.dataset_name)
    THEN [NotRun EXCEPT !.status = "ValueError: dataset_name"]
    ELSE IF ~c.label_exists
    THEN [NotRun EXCEPT !.status = "OSError: label file"]
    ELSE IF ~ModelSupported(c.extract_feature_model)
    THEN [NotRun EXCEPT !.status = "ValueError: model not support"]
    ELSE LET dirs == MakeDirs(c)
         IN  IF dirs.status # "none" THEN dirs
             ELSE LET scored == ScoreVideos(c.videos, 1, dirs)
                  IN  IF scored.status # "none" THEN scored
                      ELSE [scored EXCEPT !.status = "ok",
                                          !.files_written = {"frames.json", "scores.json"},
                                          !.writes = OutputWrites(scored)]

CliVideos == [frames : FrameCounts, fps100 : FpsHundredths]

\* A directory exists only inside an existing one.
DirStates ==
    { d \in [output_file_exists : BOOLEAN, dataset_dir_exists : BOOLEAN,
             model_dir_exists : BOOLEAN] :
        /\ d.model_dir_exists => d.dataset_dir_exists
        /\ d.dataset_dir_exists => d.output_file_exists }

InitCli ==
    /\ \E dataset_name \in DatasetNames, label_exists \in BOOLEAN,
          extract_feature_model \in FeatureModels, d \in DirStates,
          videos \in UNION {[1..n -> CliVideos] : n \in 0..MaxVideos} :
         cli = [dataset_name |-> dataset_name, label_exists |-> label_exists,
                extract_feature_model |-> extract_feature_model,
                output_file_exists |-> d.output_file_exists,
                dataset_dir_exists |-> d.dataset_dir_exists,
                model_dir_exists |-> d.model_dir_exists,
                videos |-> videos]
    /\ cli_pc = "ready"
    /\ cli_out = NotRun

\* One run of the command line.
main ==
    /\ cli_pc = "ready"
    /\ cli_pc' = "done"
    /\ cli_out' = MainResult(cli)
    /\ UNCHANGED cli

NextCli == main /\ UNCHANGED <<segVars, memVars, fuseVars, prepVars, qryVars, tokVars>>

(***************************************************************************)
(* llava_arch.py, prepare_inputs_labels_for_multimodal                     *)
(*                                                                         *)
(* The whole call for a batch given as a list of image tensors: the        *)
(* short-circuit, the segmentation and encoding of every video, the        *)
(* query-guided selection of one segment, the patch merge and the fusion.  *)
(* A video is given by the similarity of its adjacent frames and by its    *)
(* one frame that matches the query; a sample's input_ids follow the       *)
(* conversation template, one image token and then the query.  The frames  *)
(* of a sample are named by their 0-based index in the sample's input.     *)
(* The features hold no NaN.                                               *)
(***************************************************************************)
MaxPrepFrames == 5

MaxTailFrames == 3

Queries == {1, 2}

PoolModes == {"average", "max", "bilinear"}

NewlinePositions == {"grid", "frame", "one_token", "no_token"}

\* Lines 238-258, get_2dPool: the ValueError of an unrecognized mode.
get_2dPool(mm_spatial_pool_mode) ==
    IF mm_spatial_pool_mode \in PoolModes THEN "none"
    ELSE "ValueError: mm_spatial_pool_mode"

\* str.startswith("spatial") for the merge types tried.
StartsWithSpatial(mm_patch_merge_type) ==
    mm_patch_merge_type \in {"spatial", "spatial_unpad"}

\* 'unpad' in mm_patch_merge_type.
HasUnpad(mm_patch_merge_type) == mm_patch_merge_type \in {"spatial_unpad"}

\* A variant of ShortCircuit that does not look at the sequence length.
ShortCircuit_NoLengthCheck(p) ==
    ~p.vision_tower \/ p.images = "None"

\* Line 344: vision_tower is None or images is None or input_ids.shape[1] == 1.
ShortCircuit(p) == ~p.vision_tower \/ p.images = "None" \/ p.seq_len = 1

\* segment(features) with its default alpha and k, lines 27-55 of segment.py.
SegmentDefault(sim) ==
    IF SingleFrame(Len(sim) + 1) THEN <<0>>
    ELSE LET c == CHOOSE x \in SelectBoundaries(cal_depth_score(sim), DefaultAlpha, None) : TRUE
         IN  SegmentFinish(c, Len(sim) + 1)

\* Python's x[start:end] for 0 <= start, end as 1-based positions of x.
PySlice(x, start, end) == SubSeq(x, start + 1, Min2(end, Len(x)))

\* compute_frame_score for a frame and a query: query 1 matches the frame
\* marked in the video, query 2 every other frame.
Relevance(is_marked, query) ==
    IF query = 1 THEN (IF is_marked THEN 1 ELSE 0) ELSE (IF is_marked THEN 0 ELSE 1)

\* Lines 424-434: memory_boundary, the segment sizes accumulated from 0.
memory_boundary(boundaries) == [i \in 1..Len(boundaries) |-> boundaries[i] - boundaries[1]]

\* Lines 424-447: the frames of the video kept in images_list, those from the
\* first boundary on.
cat_segment_memory(boundaries) ==
    [f \in 1..(Last(boundaries) - boundaries[1]) |-> boundaries[1] + f - 1]

\* Line 385: the number of frames from which a video is encoded in chunks.
ChunkFrames == 256

\* Lines 389-391: the chunks [i, j) of a video of N frames.
Chunks(N) ==
    [c \in 1..((N + ChunkFrames - 1) \div ChunkFrames) |->
        <<(c - 1) * ChunkFrames, Min2(c * ChunkFrames, N)>>]

\* encode_images(self, images, text), line 260: a call without the text
\* argument raises before the vision tower runs.
encode_images(text_given) == IF text_given THEN "none" ELSE "TypeError: encode_images"

NotPrepared ==
    [status |-> "none", encode_calls |-> 0, segment_calls |-> 0, fusion |-> NotFused,
     boundaries |-> <<>>, boundary_list |-> <<>>, images_list |-> <<>>,
     chunks |-> <<>>, encoded_features |-> <<>>,
     non_video_positions |-> <<>>, map_output |-> 0,
     selected |-> <<>>, image_features |-> <<>>, ret |-> <<>>]

\* Lines 372-447: the loop over images_list from sample idx (1-based here).
RECURSIVE EncodeVideos(_, _, _)
EncodeVideos(samples, idx, acc) ==
    IF idx > Len(samples) THEN acc
    ELSE IF samples[idx].modality # "video"
    THEN EncodeVideos(samples, idx + 1,
             [acc EXCEPT !.non_video_positions = Append(@, idx - 1),
                         !.boundaries = Append(@, <<>>),
                         !.encoded_features = Append(@, <<>>),
                         !.images_list = Append(@, <<0>>)])
    ELSE LET boundaries == SegmentDefault(samples[idx].sim)
             T == Len(samples[idx].sim) + 1
             segmented == [acc EXCEPT !.segment_calls = @ + 1,
                                      !.boundaries = Append(@, boundaries)]
             encoded == [segmented EXCEPT !.encode_calls = @ + 1,
                                          !.encoded_features = Append(@, Arange(T)),
                                          !.map_output = idx]
         IN  IF T >= ChunkFrames
             THEN [segmented EXCEPT !.chunks = Chunks(T),
                                    !.status = encode_images(FALSE)]
             ELSE IF encode_images(TRUE) # "none"
             THEN [segmented EXCEPT !.status = encode_images(TRUE)]
             ELSE IF Len(boundaries) < 2
             THEN [encoded EXCEPT !.status = "RuntimeError: torch.cat"]
             ELSE EncodeVideos(samples, idx + 1,
                      [encoded EXCEPT
                           !.boundary_list = Append(@, memory_boundary(boundaries)),
                           !.images_list = Append(@, cat_segment_memory(boundaries))])

\* np.mean of a list of numbers as <<sum, count>>; count 0 is NaN.
Mean(x) == <<SumSeq(x), Len(x)>>

\* np.argmax over means, 0-based: the first NaN if there is one, otherwise
\* the first of the largest.
argmax(means) ==
    LET idx == 1..Len(means)
        nans == {i \in idx : means[i][2] = 0}
        largest == {i \in idx : \A j \in idx :
                        means[i][1] * means[j][2] >= means[j][1] * means[i][2]}
    IN  (IF nans # {} THEN SetMin(nans) ELSE SetMin(largest)) - 1

\* Line 580: the scores of the frames of projected_map for the query of one
\* sample; projected_map is made from the map_output of the last video encoded.
frame_score_values(samples, map_output, query) ==
    LET v == samples[map_output]
    IN  [f \in 1..(Len(v.sim) + 1) |-> Relevance(f = v.marked, query)]

\* Lines 631-644: the score of every segment of boundaries.
segment_scores(scores, boundaries) ==
    [i \in 1..(Len(boundaries) - 1) |-> Mean(PySlice(scores, boundaries[i], boundaries[i + 1]))]

\* Lines 484-658: the key memory selection from sample index on (1-based
\* here): each sample's features become the frames of its selected segment.
RECURSIVE SelectSegments(_, _, _)
SelectSegments(samples, index, acc) ==
    IF index > Len(samples) THEN acc
    ELSE IF index > Len(acc.boundary_list)
    THEN [acc EXCEPT !.status = "IndexError: boundary_list"]
    ELSE LET boundaries == acc.boundary_list[index]
             scores == frame_score_values(samples, acc.map_output, samples[index].query)
             selected_segment_index == argmax(segment_scores(scores, boundaries))
             start == boundaries[selected_segment_index + 1]
             end == boundaries[selected_segment_index + 2]
         IN  SelectSegments(samples, index + 1,
                 [acc EXCEPT !.selected = Append(@, selected_segment_index),
                             !.image_features =
                                 Append(@, PySlice(acc.images_list[index], start, end))])

\* Lines 692-827: the patch merge of one sample's features: the error it
\* raises, "none" otherwise.
PatchMergeError(cfg, modality) ==
    IF cfg.mm_patch_merge_type = "flat" THEN "none"
    ELSE IF StartsWithSpatial(cfg.mm_patch_merge_type)
    THEN IF modality = "video" /\ cfg.mm_newline_position \notin NewlinePositions
         THEN "ValueError: mm_newline_position"
         ELSE "none"
    ELSE "ValueError: mm_patch_merge_type"

\* Lines 696-758: the rows of a video's merged features, for one patch per
\* frame: the newline tokens added per grid row, per frame or once.
MergedRows(cfg, n_frames) ==
    IF cfg.mm_patch_merge_type = "flat" THEN n_frames
    ELSE IF cfg.mm_newline_position \in {"grid", "frame"} THEN 2 * n_frames
    ELSE IF cfg.mm_newline_position = "one_token" /\ HasUnpad(cfg.mm_patch_merge_type)
    THEN n_frames + 1
    ELSE n_frames

\* The errors of the patch merge over the batch, in order.
PatchMergeErrors(p) ==
    LET errs == [i \in 1..Len(p.samples) |-> PatchMergeError(p.config, p.samples[i].modality)]
        bad == {i \in 1..Len(errs) : errs[i] # "none"}
    IN  IF bad = {} THEN "none" ELSE errs[SetMin(bad)]

\* The batch the fusion works on: per sample one image token and one text
\* token, no labels, mask or position ids, and the merged features.
FusionBatch(p, image_features) ==
    [input_ids |-> [b \in 1..Len(p.samples) |-> <<IMAGE_TOKEN_INDEX, TextId(b, 2)>>],
     labels_given |-> FALSE, labels |-> <<>>,
     mask_given |-> FALSE, attention_mask |-> <<>>,
     position_ids_given |-> FALSE,
     image_features |-> [b \in 1..Len(image_features) |->
                            MergedRows(p.config, Len(image_features[b]))],
     n_modalities |-> Len(p.samples), config |-> DefaultConfig]

Given == "given"

\* The six values returned: input_ids, position_ids, attention_mask,
\* past_key_values, the input embeddings, labels.
ShortCircuitReturn == <<Given, Given, Given, Given, "None", Given>>

FusedReturn == <<"None", "None", "None", Given, "fused", "None">>

\* prepare_inputs_labels_for_multimodal, lines 340-973.
PrepareResult(p) ==
    IF ShortCircuit(p)
    THEN [NotPrepared EXCEPT !.status = "short_circuit", !.ret = ShortCircuitReturn]
    ELSE IF p.images = "tensor"
    THEN [NotPrepared EXCEPT !.status = encode_images(FALSE)]
    ELSE LET encoded == EncodeVideos(p.samples, 1, NotPrepared)
         IN  IF encoded.status # "none" THEN encoded
             ELSE IF encoded.non_video_positions # <<>>
             THEN [encoded EXCEPT !.status = encode_images(FALSE)]
             ELSE IF get_2dPool(p.config.mm_spatial_pool_mode) # "none"
             THEN [encoded EXCEPT !.status = get_2dPool(p.config.mm_spatial_pool_mode)]
             ELSE LET picked == SelectSegments(p.samples, 1, encoded)
                  IN  IF picked.status # "none" THEN picked
                      ELSE IF PatchMergeErrors(p) # "none"
                      THEN [picked EXCEPT !.status = PatchMergeErrors(p)]
                      ELSE LET f == CHOOSE x \in FusionResults(
                                        FusionBatch(p, picked.image_features)) : TRUE
                           IN  [picked EXCEPT
                                   !.fusion = f,
                                   !.status = f.status,
                                   !.ret = IF f.status = "ok" THEN FusedReturn ELSE <<>>]

\* ---- the inputs of the call ----

VideoSamples(max_frames) ==
    UNION { [modality : {"video"}, sim : [1..(T - 1) -> {0, 1}], marked : 1..T,
             query : Queries] : T \in 2..max_frames }

ImageSample == [modality |-> "image", sim |-> <<>>, marked |-> 1, query |-> 1]

\* Videos of 256 frames and more: one chunk and two chunks, with a scene
\* change every 50 frames.
LongFrameCounts == {256, 300}

LongVideoSamples ==
    { [modality |-> "video", sim |-> [i \in 1..(T - 1) |-> IF i % 50 = 0 THEN 0 ELSE 1],
       marked |-> 1, query |-> 1] : T \in LongFrameCounts }

DefaultPrepConfig ==
    [mm_spatial_pool_mode |-> "average", mm_patch_merge_type |-> "flat",
     mm_newline_position |-> "one_token"]

PrepConfigs ==
    [mm_spatial_pool_mode : {"average", "unknown"},
     mm_patch_merge_type : {"flat", "spatial_unpad", "unknown"},
     mm_newline_position : {"one_token", "grid", "unknown"}]

\* vision tower present or not, images None, a list or a 4-dim tensor, and
\* the sequence length of input_ids.
PrepArguments ==
    { <<TRUE, "list", 2>>, <<FALSE, "list", 2>>, <<TRUE, "None", 2>>,
      <<TRUE, "list", 1>>, <<TRUE, "tensor", 2>> }

\* One sample with every configuration or every form of the arguments, or
\* two samples with the defaults.
InitPrep ==
    /\ \E first \in VideoSamples(MaxPrepFrames) \cup {ImageSample} :
         \/ \E cfg \in PrepConfigs :
              prep = [vision_tower |-> TRUE, images |-> "list", seq_len |-> 2,
                      samples |-> <<first>>, config |-> cfg]
         \/ \E a \in PrepArguments :
              prep = [vision_tower |-> a[1], images |-> a[2], seq_len |-> a[3],
                      samples |-> <<first>>, config |-> DefaultPrepConfig]
         \/ \E second \in VideoSamples(MaxTailFrames) \cup {ImageSample} :
              prep = [vision_tower |-> TRUE, images |-> "list", seq_len |-> 2,
                      samples |-> <<first, second>>, config |-> DefaultPrepConfig]
         \/ \E long \in LongVideoSamples :
              prep = [vision_tower |-> TRUE, images |-> "list", seq_len |-> 2,
                      samples |-> IF Len(first.sim) = 1 THEN <<first, long>> ELSE <<long>>,
                      config |-> DefaultPrepConfig]
    /\ prep_pc = "ready"
    /\ prep_out = NotPrepared

\* One call of prepare_inputs_labels_for_multimodal.
prepare_inputs_labels_for_multimodal ==
    /\ prep_pc = "ready"
    /\ prep_pc' = "done"
    /\ prep_out' = PrepareResult(prep)
    /\ UNCHANGED prep

NextPrep ==
    prepare_inputs_labels_for_multimodal /\ UNCHANGED <<segVars, memVars, fuseVars, cliVars, qryVars, tokVars>>

(***************************************************************************)
(* llava_arch.py, extract_user_query_tokens                                *)
(*                                                                         *)
(* The function nested in the key memory selection, on the token ids of    *)
(* one sample: the image token, the end-of-turn token and two text tokens. *)
(***************************************************************************)
MaxQueryTokens == 5

IM_END_TOKEN_ID == 151645

TextTokens == {7, 8}

TokenIds == {IMAGE_TOKEN_INDEX, IM_END_TOKEN_ID} \cup TextTokens

\* list.index(x, start): the first 0-based index >= start that holds x;
\* -1 stands for the ValueError of a value that is not there.
ListIndex(t, x, start) ==
    LET S == {i \in start..(Len(t) - 1) : t[i + 1] = x}
    IN  IF S = {} THEN 0 - 1 ELSE SetMin(S)

\* Lines 500-523: the tensor of the query tokens, or the empty list when the
\* image token or the end-of-turn token after it is missing.
extract_user_query_tokens(t) ==
    LET idx_image == ListIndex(t, IMAGE_TOKEN_INDEX, 0)
        idx_im_end == IF idx_image < 0 THEN 0 - 1
                      ELSE ListIndex(t, IM_END_TOKEN_ID, idx_image)
    IN  IF idx_image < 0 \/ idx_im_end < 0
        THEN [kind |-> "list", tokens |-> <<>>]
        ELSE [kind |-> "tensor", tokens |-> PySlice(t, idx_image + 2, idx_im_end)]

NotExtracted == [kind |-> "none", tokens |-> <<>>]

InitQry ==
    /\ tokens \in UNION {[1..n -> TokenIds] : n \in 0..MaxQueryTokens}
    /\ qry_pc = "ready"
    /\ query_tensor = NotExtracted

\* query = extract_user_query_tokens(cur_input_ids), line 525.
extract_query ==
    /\ qry_pc = "ready"
    /\ qry_pc' = "done"
    /\ query_tensor' = extract_user_query_tokens(tokens)
    /\ UNCHANGED tokens

NextQry ==
    extract_query /\ UNCHANGED <<segVars, memVars, fuseVars, cliVars, prepVars, tokVars>>

(***************************************************************************)
(* llava_arch.py, initialize_vision_tokenizer                              *)
(*                                                                         *)
(* The call for every combination of the model arguments, of the special   *)
(* tokens the tokenizer already has, and of the requires_grad flags of the *)
(* input and output embeddings.  pretrain_mm_mlp_adapter is None or a      *)
(* checkpoint, given by the shape of its embed_tokens weight: that of the  *)
(* resized input embeddings ("full"), one row per new token ("new_rows"),  *)
(* or another shape ("other").                                             *)
(***************************************************************************)
SpecialTokens == {"im_patch", "im_start", "im_end"}

AdapterCheckpoints == {"None", "full", "new_rows", "other"}

\* Line 977: the tokens tokenizer.add_tokens adds for the patch token.
PatchTokensAdded(t) ==
    IF t.mm_use_im_patch_token THEN {"im_patch"} \ t.vocab ELSE {}

\* Line 981: the tokens tokenizer.add_tokens adds for the start/end pair.
StartEndTokensAdded(t) ==
    IF t.mm_use_im_start_end THEN {"im_start", "im_end"} \ t.vocab ELSE {}

\* Line 981: num_new_tokens, the return value of add_tokens.
num_new_tokens(t) == Cardinality(StartEndTokensAdded(t))

\* A variant of PatchOnlyFreezes that freezes the embeddings when adapter-only
\* tuning is not requested.
PatchOnlyFreezes_WithoutTuning(t) ==
    ~t.tune_mm_mlp_adapter

\* Lines 1010-1011: in the patch-token-only branch both embeddings are frozen
\* when adapter-only tuning is requested.
PatchOnlyFreezes(t) == t.tune_mm_mlp_adapter

\* Lines 994-998 and 1010-1015: requires_grad of the input and of the output
\* embeddings after the call.
RequiresGrad(t) ==
    IF t.mm_use_im_start_end
    THEN IF t.tune_mm_mlp_adapter THEN <<TRUE, FALSE>> ELSE <<t.input_grad, t.output_grad>>
    ELSE IF t.mm_use_im_patch_token /\ PatchOnlyFreezes(t) THEN <<FALSE, FALSE>>
    ELSE <<t.input_grad, t.output_grad>>

\* Lines 1000-1009: how the rows of the new start/end tokens are overwritten
\* from the checkpoint, or the error the branch ends with.
LoadAdapterRows(t) ==
    IF num_new_tokens(t) # 2 THEN "AssertionError"
    ELSE IF t.pretrain_mm_mlp_adapter = "full" THEN "trailing rows"
    ELSE IF t.pretrain_mm_mlp_adapter = "new_rows" THEN "all rows"
    ELSE "ValueError: embed_tokens_weight"

NotInitialized ==
    [status |-> "none", vocab |-> {}, resized |-> FALSE, new_rows |-> "none",
     input_grad |-> FALSE, output_grad |-> FALSE]

\* initialize_vision_tokenizer(model_args, tokenizer), lines 975-1015.
InitializeResult(t) ==
    LET grads == RequiresGrad(t)
        base == [NotInitialized EXCEPT
                    !.status = "ok",
                    !.vocab = t.vocab \cup PatchTokensAdded(t) \cup StartEndTokensAdded(t),
                    !.resized = t.mm_use_im_patch_token \/ t.mm_use_im_start_end,
                    !.new_rows = IF num_new_tokens(t) > 0 THEN "mean" ELSE "none",
                    !.input_grad = grads[1],
                    !.output_grad = grads[2]]
    IN  IF t.mm_use_im_start_end /\ t.pretrain_mm_mlp_adapter # "None"
        THEN IF LoadAdapterRows(t) \in {"trailing rows", "all rows"}
             THEN [base EXCEPT !.new_rows = LoadAdapterRows(t)]
             ELSE [base EXCEPT !.status = LoadAdapterRows(t)]
        ELSE base

InitTok ==
    /\ tok \in [mm_use_im_patch_token : BOOLEAN, mm_use_im_start_end : BOOLEAN,
                tune_mm_mlp_adapter : BOOLEAN, pretrain_mm_mlp_adapter : AdapterCheckpoints,
                vocab : SUBSET SpecialTokens, input_grad : BOOLEAN, output_grad : BOOLEAN]
    /\ tok_pc = "ready"
    /\ tok_out = NotInitialized

\* One call of initialize_vision_tokenizer.
initialize_vision_tokenizer ==
    /\ tok_pc = "ready"
    /\ tok_pc' = "done"
    /\ tok_out' = InitializeResult(tok)
    /\ UNCHANGED tok

NextTok ==
    initialize_vision_tokenizer
        /\ UNCHANGED <<segVars, memVars, fuseVars, cliVars, prepVars, qryVars>>

(***************************************************************************)
(* The specifications.  The parts that a specification does not exercise   *)
(* stay idle.                                                              *)
(***************************************************************************)
IdleSeg ==
    /\ depth_scores = NotComputed
    /\ sim_scores = <<>>
    /\ seg_args = [fn |-> "none", alpha |-> DefaultAlpha, k |-> None,
                   min_distance |-> None, max_distance |-> None]
    /\ seg_pc = "idle"
    /\ seg_ret = <<>>
    /\ seg_err = "none"

IdleMem ==
    /\ params = [initial_memory |-> 0, retrieval_finite |-> TRUE,
                 layers_finite |-> TRUE, training |-> FALSE]
    /\ memory_cache = <<>>
    /\ cache_src = <<>>
    /\ fwd = NoCall
    /\ calls = <<>>
    /\ since_reset = 0
    /\ ncalls = MaxCalls
    /\ video = NumVideos

IdleFuse ==
    /\ batch = [input_ids |-> <<>>]
    /\ fuse_pc = "idle"
    /\ fused = NotFused

IdleCli ==
    /\ cli = [videos |-> <<>>]
    /\ cli_pc = "idle"
    /\ cli_out = NotRun

IdlePrep ==
    /\ prep = [samples |-> <<>>]
    /\ prep_pc = "idle"
    /\ prep_out = NotPrepared

IdleQry ==
    /\ tokens = <<>>
    /\ qry_pc = "idle"
    /\ query_tensor = NotExtracted

IdleTok ==
    /\ tok = [vocab |-> {}]
    /\ tok_pc = "idle"
    /\ tok_out = NotInitialized

InitSegSpec == InitSeg /\ IdleMem /\ IdleFuse /\ IdleCli /\ IdlePrep /\ IdleQry /\ IdleTok

InitMemSpec == IdleSeg /\ InitMem /\ IdleFuse /\ IdleCli /\ IdlePrep /\ IdleQry /\ IdleTok

InitFuseSpec == IdleSeg /\ IdleMem /\ InitFuse /\ IdleCli /\ IdlePrep /\ IdleQry /\ IdleTok

InitCliSpec == IdleSeg /\ IdleMem /\ IdleFuse /\ InitCli /\ IdlePrep /\ IdleQry /\ IdleTok

InitPrepSpec == IdleSeg /\ IdleMem /\ IdleFuse /\ IdleCli /\ InitPrep /\ IdleQry /\ IdleTok

SpecSeg == InitSegSpec /\ [][NextSeg]_vars

SpecMem == InitMemSpec /\ [][NextMem]_vars

SpecFuse == InitFuseSpec /\ [][NextFuse]_vars

SpecCli == InitCliSpec /\ [][NextCli]_vars

SpecPrep == InitPrepSpec /\ [][NextPrep]_vars

InitQrySpec == IdleSeg /\ IdleMem /\ IdleFuse /\ IdleCli /\ IdlePrep /\ InitQry /\ IdleTok

InitTokSpec == IdleSeg /\ IdleMem /\ IdleFuse /\ IdleCli /\ IdlePrep /\ IdleQry /\ InitTok

SpecQry == InitQrySpec /\ [][NextQry]_vars

SpecTok == InitTokSpec /\ [][NextTok]_vars

(***************************************************************************)
(* Properties of segment and adjusted_segment, checked under SpecSeg.      *)
(***************************************************************************)
Gaps(b) == [i \in 1..(Len(b) - 1) |-> b[i + 1] - b[i]]

SegmentReturned ==
    /\ seg_pc = "segment"
    /\ Frames >= 2
    /\ seg_args.k = None \/ (0 <= seg_args.k /\ seg_args.k <= Frames - 1)

AdjustedReturned ==
    /\ seg_pc = "adjusted_segment"
    /\ Frames >= 2
    /\ seg_err = "none"

AdjustedReturnedDefaults ==
    /\ AdjustedReturned
    /\ seg_args.min_distance = DefaultMinDistance
    /\ seg_args.max_distance = DefaultMaxDistance

\* C1: for T >= 2 frames and a valid call (k None with any alpha, or
\* 0 <= k <= T - 1), segment returns without error a strictly increasing,
\* duplicate-free list of integers of 0..T whose last element is T.
C1_SegmentBoundaries ==
    SegmentReturned =>
        /\ seg_err = "none"
        /\ StrictlyIncreasing(seg_ret)
        /\ Cardinality(SeqToSet(seg_ret)) = Len(seg_ret)
        /\ \A i \in 1..Len(seg_ret) : seg_ret[i] \in 0..Frames
        /\ seg_ret # <<>> /\ Last(seg_ret) = Frames

\* A call of segment that selected the last possible index, T - 2, and another
\* boundary before it.
C1_Witness ==
    /\ SegmentReturned
    /\ Len(seg_ret) >= 3
    /\ seg_ret[Len(seg_ret) - 1] = Frames - 2
    /\ Last(seg_ret) = Frames

\* C2: for T >= 2 frames and any min_distance and max_distance,
\* adjusted_segment returns a strictly increasing list that starts with 0 and
\* ends with T.
C2_AdjustedStartsAtZeroEndsAtT ==
    AdjustedReturned =>
        /\ StrictlyIncreasing(seg_ret)
        /\ seg_ret # <<>>
        /\ seg_ret[1] = 0
        /\ Last(seg_ret) = Frames

\* C3: with min_distance 32 and max_distance 50, every gap between consecutive
\* boundaries of adjusted_segment is at least min_distance, boundaries
\* inserted to subdivide a long gap included; the one exception is the last
\* gap, which the merge of a too-short final segment may have produced.
C3_GapsAtLeastMinDistance ==
    AdjustedReturnedDefaults =>
        \A i \in 1..(Len(seg_ret) - 2) : Gaps(seg_ret)[i] >= seg_args.min_distance

\* C4: with max_distance 50, no gap between consecutive boundaries of
\* adjusted_segment exceeds max_distance, the gap to the final boundary and
\* the gap made by the end merge included.
C4_GapsAtMostMaxDistance ==
    AdjustedReturnedDefaults =>
        \A i \in 1..(Len(seg_ret) - 1) : Gaps(seg_ret)[i] <= seg_args.max_distance

(***************************************************************************)
(* Properties of TransformerProjector.forward and its cache, checked under *)
(* SpecMem.                                                                *)
(***************************************************************************)
ValueErrors == {"ValueError: current_memory", "ValueError: hidden_states"}

\* C5: starting from an empty cache and with no reset in between, after N
\* successful forward calls the cache holds exactly N entries.
C5_CacheLengthIsSuccessCount ==
    Len(memory_cache) = since_reset

\* Two successful calls and a failed one since the cache was empty.
C5_Witness ==
    /\ since_reset = 2
    /\ Len(memory_cache) = 2
    /\ ncalls = 3
    /\ \A i \in 1..Len(cache_src) : cache_src[i] = video

\* C6: forward never resets the cache: the cache before a successful call is
\* a prefix of the cache after it, and a call on a non-empty cache, the first
\* call of a new video included, starts from the last cache entry and not
\* from initial_memory.
C6_NoAutomaticReset ==
    [][ncalls' = ncalls + 1 =>
          /\ IsPrefix(memory_cache, memory_cache')
          /\ fwd'.cache_before = memory_cache
          /\ memory_cache # <<>> => fwd'.start_memory = Last(memory_cache)]_vars

\* The first call of a new video succeeded on a cache whose last entry is of
\* the previous video and differs from initial_memory.
C6_Witness ==
    /\ fwd.outcome = "ok"
    /\ fwd.cache_before # <<>>
    /\ Len(memory_cache) = Len(fwd.cache_before) + 1
    /\ cache_src[Len(fwd.cache_before)] # fwd.video
    /\ cache_src[Len(memory_cache)] = fwd.video
    /\ fwd.start_memory = Last(fwd.cache_before)
    /\ fwd.start_memory # params.initial_memory

\* C7: with dropout inactive the result of forward is a function of the chunk
\* and the cache contents: two calls on the same chunk with the same cache
\* before them end the same way, and a call on a non-empty cache starts from
\* the entry the previous successful call appended.
C7_OutputDeterminedByChunkAndCache ==
    /\ \A i, j \in 1..Len(calls) :
           (/\ calls[i].image_features = calls[j].image_features
            /\ calls[i].cache_before = calls[j].cache_before)
           => (/\ calls[i].outcome = calls[j].outcome
               /\ calls[i].ret = calls[j].ret
               /\ calls[i].hidden_states = calls[j].hidden_states)
    /\ \A i \in 1..Len(calls) :
           calls[i].cache_before # <<>> =>
               calls[i].start_memory = Last(calls[i].cache_before)

\* Three calls on the same chunk in eval mode: the first and the third on an
\* empty cache (a reset in between) with the same output, the second on the
\* first one's entry with another output.
C7_Witness ==
    /\ Len(calls) = 3
    /\ \A i \in 1..3 : calls[i].outcome = "ok" /\ calls[i].image_features = calls[1].image_features
    /\ calls[1].cache_before = <<>>
    /\ calls[2].cache_before = <<calls[1].ret>>
    /\ calls[3].cache_before = <<>>
    /\ calls[3].ret = calls[1].ret
    /\ calls[2].ret # calls[1].ret

\* C8: a NaN in the working memory (initial_memory, the last cache entry or
\* the refreshed memory) or in the output of the layers ends the call with a
\* ValueError, and no call returns a memory that holds NaN.
C8_NaNRaises ==
    /\ (fwd.called /\ (IsNaN(fwd.start_memory) \/ IsNaN(fwd.current_memory)
                       \/ AnyNaN(fwd.hidden_states)))
          => fwd.outcome \in ValueErrors
    /\ fwd.outcome = "ok" => (fwd.ret \in Vals /\ ~IsNaN(fwd.ret))

\* The refresh from the cache turned a finite memory into NaN and the call
\* raised.
C8_Witness ==
    /\ fwd.refreshed
    /\ ~IsNaN(fwd.start_memory)
    /\ IsNaN(fwd.current_memory)
    /\ fwd.outcome = "ValueError: hidden_states"
    /\ memory_cache = fwd.cache_before

(***************************************************************************)
(* Properties of the fusion of prepare_inputs_labels_for_multimodal,       *)
(* checked under SpecFuse.                                                 *)
(***************************************************************************)
NumPlaceholders(ids) == Cardinality({q \in 1..Len(ids) : ids[q] = IMAGE_TOKEN_INDEX})

BlockRows(image_features, blocks) ==
    SumSeq([i \in 1..Len(blocks) |-> image_features[blocks[i] + 1]])

\* The positions of row whose embedding is of the given kind.
Positions(row, kind) == {q \in 1..Len(row) : row[q].kind = kind}

\* The input position of the token a text embedding was made from.
SourcePosition(b, e) == e.src - 10 * b

\* C9: for a sample with p >= 1 placeholders, the fused sequence before
\* truncation and padding is as long as the sample's non-placeholder tokens
\* plus the rows of the p image-feature blocks it consumed, and its fused
\* labels have the same length.
C9_FusedLength ==
    \A b \in 1..Len(fused.new_input_embeds) :
        LET ids == UnpaddedIds(batch)[b]
            p == NumPlaceholders(ids)
        IN  p >= 1 =>
              /\ Len(fused.blocks[b]) = p
              /\ Len(fused.new_input_embeds[b])
                   = (Len(ids) - p) + BlockRows(batch.image_features, fused.blocks[b])
              /\ Cardinality(Positions(fused.new_input_embeds[b], "text")) = Len(ids) - p
              /\ Len(fused.new_labels[b]) = Len(fused.new_input_embeds[b])

\* A sample with two placeholders and a text token consumed two blocks of
\* different lengths.
C9_Witness ==
    /\ fused.status = "ok"
    /\ \E b \in 1..Len(fused.new_input_embeds) :
         /\ NumPlaceholders(UnpaddedIds(batch)[b]) = 2
         /\ Len(fused.blocks[b]) = 2
         /\ batch.image_features[fused.blocks[b][1] + 1]
              # batch.image_features[fused.blocks[b][2] + 1]
         /\ Len(fused.new_input_embeds[b]) = 4

\* C10: in the labels returned, the positions of image-feature rows and of
\* padding carry IGNORE_INDEX; the labels given appear only at the positions
\* of text tokens, each token with its own label, in the original order.
C10_LabelsOnlyAtText ==
    (fused.status = "ok" /\ ~fused.labels_none) =>
        \A b \in 1..Len(fused.labels) :
            LET row == fused.input_embeds[b]
                labs == fused.labels[b]
            IN  /\ Len(labs) = Len(row)
                /\ \A q \in Positions(row, "image") \cup Positions(row, "pad") :
                       labs[q] = IGNORE_INDEX
                /\ \A q \in Positions(row, "text") :
                       labs[q] = batch.labels[b][SourcePosition(b, row[q])]
                /\ \A q1, q2 \in Positions(row, "text") :
                       q1 < q2 => SourcePosition(b, row[q1]) < SourcePosition(b, row[q2])

\* A returned row with an image-feature row between two labelled text
\* tokens, and a padded row in the same batch.
C10_Witness ==
    /\ fused.status = "ok"
    /\ ~fused.labels_none
    /\ \E b \in 1..Len(fused.labels) :
         \E q1, q2, q3 \in 1..Len(fused.labels[b]) :
             /\ q1 < q2 /\ q2 < q3
             /\ fused.input_embeds[b][q1].kind = "text"
             /\ fused.input_embeds[b][q2].kind = "image"
             /\ fused.input_embeds[b][q3].kind = "text"
             /\ fused.labels[b][q1] # IGNORE_INDEX
             /\ fused.labels[b][q3] # IGNORE_INDEX
    /\ \E b \in 1..Len(fused.labels) : Positions(fused.input_embeds[b], "pad") # {}

\* The length of returned row i before padding: its fused length, truncated.
ContentLen(i) ==
    LET n == batch.config.tokenizer_model_max_length
        len == Len(fused.new_input_embeds[i])
    IN  IF n = None THEN len ELSE Min2(n, len)

\* The first (1-based) position of the content of row i in the padded row.
ContentStart(i) ==
    IF batch.config.tokenizer_padding_side = "left"
    THEN Len(fused.input_embeds[i]) - ContentLen(i) + 1
    ELSE 1

\* C11: when an attention mask and position ids are given and position
\* skipping is off, for a sample of fused length L in a batch of maximum
\* fused length M the mask is True exactly over the content (positions
\* 0..L-1 with right padding, M-L..M-1 with left padding), the position ids
\* there are 0..L-1, and padded positions have mask False and position id 0.
C11_MaskAndPositionIds ==
    (/\ fused.status = "ok"
     /\ ~fused.attention_mask_none
     /\ ~fused.position_ids_none
     /\ ~batch.config.use_pos_skipping) =>
        /\ Len(fused.attention_mask) = Len(fused.input_embeds)
        /\ Len(fused.position_ids) = Len(fused.input_embeds)
        /\ \A i \in 1..Len(fused.input_embeds) :
            LET M == Len(fused.input_embeds[i])
                L == ContentLen(i)
                first == ContentStart(i)
            IN  /\ M = MaxLen(fused.input_embeds)
                /\ Len(fused.attention_mask[i]) = M
                /\ Len(fused.position_ids[i]) = M
                /\ \A q \in 1..M :
                     IF first <= q /\ q < first + L
                     THEN /\ fused.attention_mask[i][q] = TRUE
                          /\ fused.position_ids[i][q] = q - first
                          /\ fused.input_embeds[i][q].kind # "pad"
                     ELSE /\ fused.attention_mask[i][q] = FALSE
                          /\ fused.position_ids[i][q] = 0
                          /\ fused.input_embeds[i][q].kind = "pad"

\* A batch of two samples of different fused lengths, padded on the left.
C11_Witness ==
    /\ fused.status = "ok"
    /\ ~fused.attention_mask_none
    /\ ~fused.position_ids_none
    /\ batch.config.tokenizer_padding_side = "left"
    /\ Len(fused.input_embeds) = 2
    /\ ContentLen(1) < ContentLen(2)
    /\ ContentLen(1) >= 1
    /\ fused.attention_mask[1][1] = FALSE

IsPalindrome(s) == \A i \in 1..Len(s) : s[i] = s[Len(s) + 1 - i]

\* C16: for a feature sequence of one frame, segment and adjusted_segment
\* return exactly [0], for every alpha, k, min_distance and max_distance, and
\* compute no similarity or depth score.
C16_SingleFrameReturnsZero ==
    (seg_pc \in {"segment", "adjusted_segment"} /\ Frames = 1) =>
        /\ seg_ret = <<0>>
        /\ seg_err = "none"
        /\ depth_scores = NotComputed

\* adjusted_segment returned [0] for one frame and a k that top-k selection
\* would reject.
C16_Witness ==
    /\ seg_pc = "adjusted_segment"
    /\ Frames = 1
    /\ seg_args.k = 1
    /\ seg_args.min_distance = 0
    /\ seg_ret = <<0>>

\* C17: cal_depth_score maps a palindromic similarity sequence to a
\* palindromic depth-score sequence, for every length and pattern of ties.
C17_DepthScorePalindrome ==
    (seg_pc # "ready" /\ Frames >= 2 /\ IsPalindrome(sim_scores)) =>
        /\ Len(depth_scores) = Len(sim_scores)
        /\ IsPalindrome(depth_scores)

\* A palindrome with a tie in the middle that both scans pass through.
C17_Witness ==
    /\ seg_pc # "ready"
    /\ sim_scores = <<2, 1, 1, 2>>
    /\ depth_scores = <<0, 2, 2, 0>>

\* C18: whenever the cursor has run past the end of a non-empty list of
\* image-feature blocks, by any amount and in a sample with or without
\* placeholders, the previous block is reused and the fusion completes
\* without an index error.
C18_CursorOverrunReusesBlock ==
    (fuse_pc = "done" /\ Len(batch.image_features) >= 1) =>
        fused.status # "IndexError"

(***************************************************************************)
(* Properties of the feature-extraction command line, checked under        *)
(* SpecCli.                                                                *)
(***************************************************************************)
\* The sampling points of a video under round(fps).
RoundedSamplingPoints(v) ==
    LET step == PyRound(v.fps100, 100)
    IN  [j \in 1..(v.frames \div step) |-> (j - 1) * step]

\* C14: for every video with frame_count frames and fps >= 1 the run scores
\* exactly floor(frame_count / round(fps)) sampling points, the j-th at the
\* source-frame index j * round(fps).
C14_SamplingPointsUseRoundedFps ==
    cli_out.status = "ok" =>
        \A i \in 1..Len(cli.videos) :
            cli.videos[i].fps100 >= 100 =>
                /\ cli_out.scores[i] = Len(RoundedSamplingPoints(cli.videos[i]))
                /\ cli_out.fn[i] = RoundedSamplingPoints(cli.videos[i])

ReachesImageProcessing ==
    /\ prep_pc = "done"
    /\ prep.vision_tower /\ prep.images = "list" /\ prep.seq_len # 1

ConfigRecognized(cfg) ==
    /\ cfg.mm_spatial_pool_mode \in PoolModes
    /\ cfg.mm_patch_merge_type = "flat" \/ StartsWithSpatial(cfg.mm_patch_merge_type)
    /\ cfg.mm_newline_position \in NewlinePositions

\* The frames (0-based) of segment k (1-based) of a boundary list.
SegmentFrames(boundaries, k) ==
    [f \in 1..(boundaries[k + 1] - boundaries[k]) |-> boundaries[k] + f - 1]

\* The frames a sample should be reduced to: those of the first segment, among
\* the segments of its own boundary list, with the highest mean relevance of
\* its own frames to its own query.
BestOwnSegment(sample) ==
    LET boundaries == SegmentDefault(sample.sim)
        own == [f \in 1..(Len(sample.sim) + 1) |-> Relevance(f = sample.marked, sample.query)]
        means == [k \in 1..(Len(boundaries) - 1) |->
                     Mean([f \in 1..(boundaries[k + 1] - boundaries[k]) |->
                              own[boundaries[k] + f]])]
    IN  SegmentFrames(boundaries, argmax(means) + 1)

\* C12: a call that reaches image processing with an unrecognized
\* mm_spatial_pool_mode, mm_patch_merge_type or mm_newline_position ends in
\* an error and never returns fused embeddings, whatever the modalities of
\* the batch and the other configuration values.
C12_UnrecognizedConfigRaises ==
    (ReachesImageProcessing /\ ~ConfigRecognized(prep.config)) =>
        /\ prep_out.status # "ok"
        /\ prep_out.fusion = NotFused
        /\ prep_out.ret = <<>>

\* C13: without a vision tower, with images None or with input_ids of
\* sequence length 1 the call returns the given input_ids, position_ids,
\* attention_mask, past_key_values and labels with no input embeddings, and
\* encodes, segments and fuses nothing.
C13_ShortCircuit ==
    (prep_pc = "done" /\ (~prep.vision_tower \/ prep.images = "None" \/ prep.seq_len = 1)) =>
        /\ prep_out.status = "short_circuit"
        /\ prep_out.ret = <<Given, Given, Given, Given, "None", Given>>
        /\ prep_out.encode_calls = 0
        /\ prep_out.segment_calls = 0
        /\ prep_out.fusion = NotFused
        /\ prep_out.image_features = <<>>

\* A decoding step (sequence length 1) with a vision tower and a video in
\* images was short-circuited.
C13_Witness ==
    /\ prep_pc = "done"
    /\ prep.vision_tower /\ prep.images = "list" /\ prep.seq_len = 1
    /\ prep.samples[1].modality = "video"
    /\ prep_out.status = "short_circuit"

\* C19: the features of every video sample are replaced by exactly the
\* frames of the segment, among those of the sample's own boundary list,
\* whose frames of that same sample have the highest mean relevance (the
\* first one on ties), for any boundary list and any number of videos.
C19_SelectsBestOwnSegment ==
    (ReachesImageProcessing /\ prep_out.status = "ok") =>
        \A i \in 1..Len(prep.samples) :
            prep.samples[i].modality = "video" =>
                prep_out.image_features[i] = BestOwnSegment(prep.samples[i])

\* C20: in a batch that mixes image and video samples the call completes,
\* the features of the image samples reach the patch merge unchanged, and
\* every video sample is reduced to a segment of its own boundary list.
C20_SelectionPerVideoSampleOnly ==
    (/\ ReachesImageProcessing
     /\ ConfigRecognized(prep.config)
     /\ \E i \in 1..Len(prep.samples) : prep.samples[i].modality = "image"
     /\ \E i \in 1..Len(prep.samples) :
            prep.samples[i].modality = "video"
            /\ Len(SegmentDefault(prep.samples[i].sim)) >= 2) =>
        /\ prep_out.status = "ok"
        /\ Len(prep_out.image_features) = Len(prep.samples)
        /\ \A i \in 1..Len(prep.samples) :
              IF prep.samples[i].modality = "image"
              THEN prep_out.image_features[i] = <<0>>
              ELSE \E k \in 1..(Len(SegmentDefault(prep.samples[i].sim)) - 1) :
                       prep_out.image_features[i]
                           = SegmentFrames(SegmentDefault(prep.samples[i].sim), k)

\* The frames 0..T-1 of a sample, in order.
AllFrames(sample) == [f \in 1..(Len(sample.sim) + 1) |-> f - 1]

\* C21: splitting a video's encoded frames at the boundaries segment returned
\* and concatenating the parts gives the frames back: for every boundary
\* list, [T] and lists that start after 0 included, the concatenation holds
\* every frame 0..T-1 once and in order.
C21_PartitionConcatIsIdentity ==
    ReachesImageProcessing =>
        \A i \in 1..Len(prep_out.boundaries) :
            prep.samples[i].modality = "video" =>
                /\ i <= Len(prep_out.images_list)
                /\ prep_out.images_list[i] = AllFrames(prep.samples[i])

(***************************************************************************)
(* Properties of extract_user_query_tokens, checked under SpecQry.         *)
(***************************************************************************)
\* C22: the query extracted for a sample is exactly the token ids strictly
\* between the first image token and the next end-of-turn token after it:
\* every token after the image token and before the end-of-turn token, and
\* no other.
C22_QueryIsOpenInterval ==
    qry_pc = "done" =>
        \A i, e \in 1..Len(tokens) :
            (/\ tokens[i] = IMAGE_TOKEN_INDEX
             /\ \A j \in 1..(i - 1) : tokens[j] # IMAGE_TOKEN_INDEX
             /\ i < e
             /\ tokens[e] = IM_END_TOKEN_ID
             /\ \A j \in (i + 1)..(e - 1) : tokens[j] # IM_END_TOKEN_ID)
            => query_tensor.tokens = SubSeq(tokens, i + 1, e - 1)

\* C23: a video of N >= 256 frames is encoded in the consecutive chunks
\* [i, min(i + 256, N)), i = 0, 256, 512, ..., which cover every frame once
\* and in order, and the per-frame features the rest of the pass uses for the
\* video are the concatenation of the chunk encodings.
C23_LongVideoEncodedInChunks ==
    ReachesImageProcessing =>
        \A i \in 1..Len(prep_out.boundaries) :
            (prep.samples[i].modality = "video" /\ Len(prep.samples[i].sim) + 1 >= 256) =>
                /\ i <= Len(prep_out.encoded_features)
                /\ prep_out.encoded_features[i] = AllFrames(prep.samples[i])

C29_NaNErrorLeavesCache ==
    [][ncalls' = ncalls + 1 =>
          /\ fwd'.outcome \in ValueErrors =>
                (memory_cache' = memory_cache /\ since_reset' = since_reset)
          /\ fwd'.outcome = "ok" => Len(memory_cache') = Len(memory_cache) + 1
          /\ \A i \in 1..Len(memory_cache') : ~IsNaN(memory_cache'[i])
          /\ Len(memory_cache') = since_reset']_vars

\* After two successful calls a call whose layers gave NaN raised, and the
\* cache still holds the two finite entries.
C29_Witness ==
    /\ ncalls = 3
    /\ since_reset = 2
    /\ fwd.outcome = "ValueError: hidden_states"
    /\ IsNaN(fwd.hidden_states[1])
    /\ Len(fwd.cache_before) = 2
    /\ memory_cache = fwd.cache_before

(***************************************************************************)
(* Further properties of segment, checked under SpecSeg.                   *)
(***************************************************************************)
\* The indices segment selected: the returned list without the final
\* boundary T.
SelectedIndices == SeqToSet(seg_ret) \ {Frames}

\* C25: in threshold mode (k None) segment selects exactly the indices whose
\* depth score strictly exceeds mean + alpha * std when at most 15 of them
\* do, and otherwise 15 indices with the largest depth scores; the returned
\* list never has more than 16 elements.
C25_ThresholdSelectionCapped ==
    (seg_pc = "segment" /\ seg_args.k = None /\ Frames >= 2) =>
        LET passing == ThresholdSet(depth_scores, seg_args.alpha)
            others == (0..(Frames - 2)) \ SelectedIndices
        IN  /\ seg_err = "none"
            /\ Last(seg_ret) = Frames
            /\ SelectedIndices \subseteq 0..(Frames - 2)
            /\ IF Cardinality(passing) <= 15
               THEN SelectedIndices = passing
               ELSE /\ Cardinality(SelectedIndices) = 15
                    /\ \A i \in SelectedIndices : \A j \in others :
                           depth_scores[i + 1] >= depth_scores[j + 1]
            /\ Len(seg_ret) <= 16

\* Every one of the 35 depth scores passed the threshold and segment kept 15
\* of them: the ten deep dips and five of the shallow ones.
C25_Witness ==
    /\ seg_pc = "segment"
    /\ seg_args.k = None
    /\ sim_scores = DenseSim
    /\ Cardinality(ThresholdSet(depth_scores, seg_args.alpha)) = 35
    /\ Len(seg_ret) = 16
    /\ \A i \in 1..10 : (2 * i - 1) \in SelectedIndices

(***************************************************************************)
(* Further properties of the feature-extraction command line, checked      *)
(* under SpecCli.                                                          *)
(***************************************************************************)
\* The writes of a run to the file of the given name.
WritesTo(name) == {w \in 1..Len(cli_out.writes) : cli_out.writes[w][1] = name}

\* C26: frames.json and scores.json are written exactly once each and only
\* after every labelled entry has been processed; a run in which an entry
\* fails writes neither file; after a successful run both files hold one
\* list per labelled entry, in label order, the i-th frames list as long as
\* the i-th scores list.
C26_OutputsWrittenOnceAtEnd ==
    cli_pc = "done" =>
        /\ cli_out.status # "ok" => (cli_out.writes = <<>> /\ cli_out.files_written = {})
        /\ cli_out.status = "ok" =>
              /\ cli_out.videos_opened = Len(cli.videos)
              /\ Cardinality(WritesTo("frames.json")) = 1
              /\ Cardinality(WritesTo("scores.json")) = 1
              /\ Len(cli_out.writes) = 2
              /\ \A w \in 1..Len(cli_out.writes) :
                     Len(cli_out.writes[w][2]) = Len(cli.videos)
              /\ \A w \in WritesTo("frames.json") : \A i \in 1..Len(cli.videos) :
                     LET step == cli.videos[i].fps100 \div 100
                         frames == cli_out.writes[w][2][i]
                     IN  /\ \A j \in 1..Len(frames) : frames[j] = (j - 1) * step
                         /\ Len(frames) = cli.videos[i].frames \div step
                         /\ \A v \in WritesTo("scores.json") :
                                cli_out.writes[v][2][i] = Len(frames)

\* A run whose second entry failed after the first was scored: no file was
\* written.
C26_Witness ==
    /\ cli_pc = "done"
    /\ Len(cli.videos) = 2
    /\ cli_out.videos_opened = 2
    /\ Len(cli_out.fn) = 1
    /\ cli_out.fn[1] # <<>>
    /\ cli_out.status = "ZeroDivisionError"
    /\ cli_out.writes = <<>>

\* C27: once the dataset name, the label file and the model selector are
\* accepted, the run makes sure that <output>/<dataset>/ and
\* <output>/<dataset>/<model>/ exist, creating those that are absent, for
\* every state of the file system: directories already there, and an output
\* root that does not exist yet.
C27_OutputDirectoriesEnsured ==
    (/\ cli_pc = "done"
     /\ cli.dataset_name \in {"longvideobench", "videomme"}
     /\ cli.label_exists
     /\ cli.extract_feature_model = "clip") =>
        /\ cli_out.status # "FileNotFoundError"
        /\ cli.dataset_dir_exists \/ "dataset" \in cli_out.dirs_created
        /\ cli.model_dir_exists \/ "model" \in cli_out.dirs_created
        /\ cli.dataset_dir_exists => "dataset" \notin cli_out.dirs_created
        /\ cli.model_dir_exists => "model" \notin cli_out.dirs_created

(***************************************************************************)
(* Properties of initialize_vision_tokenizer, checked under SpecTok.       *)
(***************************************************************************)
PatchTokenOnly == tok.mm_use_im_patch_token /\ ~tok.mm_use_im_start_end

\* C28 as stated: after the call, with start/end tokens and adapter-only
\* tuning the input embeddings are trainable and the output embeddings
\* frozen; with the patch token only and without adapter-only tuning both
\* are frozen.
C28_EmbeddingTrainability ==
    tok_pc = "done" =>
        /\ (tok.mm_use_im_start_end /\ tok.tune_mm_mlp_adapter) =>
              (tok_out.input_grad /\ ~tok_out.output_grad)
        /\ (PatchTokenOnly /\ ~tok.tune_mm_mlp_adapter) =>
              (~tok_out.input_grad /\ ~tok_out.output_grad)

\* C28 amended: with start/end tokens and adapter-only tuning the input
\* embeddings are trainable and the output embeddings frozen; with the patch
\* token only, both are frozen when adapter-only tuning is requested, and
\* without it both are left as they were.
C28_EmbeddingTrainabilityAmended ==
    tok_pc = "done" =>
        /\ (tok.mm_use_im_start_end /\ tok.tune_mm_mlp_adapter) =>
              (tok_out.input_grad /\ ~tok_out.output_grad)
        /\ (PatchTokenOnly /\ tok.tune_mm_mlp_adapter) =>
              (~tok_out.input_grad /\ ~tok_out.output_grad)
        /\ (PatchTokenOnly /\ ~tok.tune_mm_mlp_adapter) =>
              (/\ tok_out.input_grad = tok.input_grad
               /\ tok_out.output_grad = tok.output_grad)

\* The patch token alone was added under adapter-only tuning to a model whose
\* embeddings were trainable: both are frozen now.
C28_Witness ==
    /\ tok_pc = "done"
    /\ PatchTokenOnly
    /\ tok.tune_mm_mlp_adapter
    /\ "im_patch" \notin tok.vocab
    /\ "im_patch" \in tok_out.vocab
    /\ tok.input_grad /\ tok.output_grad
    /\ ~tok_out.input_grad /\ ~tok_out.output_grad

(***************************************************************************)
(* A further property of the fusion, checked under SpecFuse.               *)
(***************************************************************************)
\* C30: the fused embeddings, labels, attention mask and position ids
\* returned have one row per sample of the batch, in the order of the batch,
\* for every length of the modalities list, the default one-element list
\* with a batch of several samples included; truncation shortens rows and
\* drops none.
C30_OneRowPerSample ==
    fused.status = "ok" =>
        LET B == Len(batch.input_ids)
        IN  /\ Len(fused.input_embeds) = B
            /\ ~fused.labels_none => Len(fused.labels) = B
            /\ ~fused.attention_mask_none => Len(fused.attention_mask) = B
            /\ ~fused.position_ids_none => Len(fused.position_ids) = B
            /\ \A b \in 1..Len(fused.input_embeds) :
                   \A q \in Positions(fused.input_embeds[b], "text") :
                       SourcePosition(b, fused.input_embeds[b][q]) \in 1..Len(batch.input_ids[b])

====
